---------------------------- MODULE Spec2Model ----------------------------
(***************************************************************************)
(* A model of the drawing-analysis core of Construction-AI:                *)
(*   - NECValidator                  (src/nec_validator.py)                *)
(*   - SmartTextAssembler            (src/Railway-Deployment/              *)
(*                                    text_assembly.py)                    *)
(*   - DrawingPreprocessor           (src/Railway-Deployment/              *)
(*                                    drawing_preprocessor.py)             *)
(*                                                                         *)
(* Conventions.                                                            *)
(*   Optional[T]  is a sequence of length <= 1: None is << >>, a value v   *)
(*                is <<v>>.                                                *)
(*   str          is a sequence of one-character strings wherever the      *)
(*                code looks inside it (OCR text); an opaque TLA+ string   *)
(*                where the code only compares it (gauges, severities).    *)
(*   list of objects held by reference (the OCR fragments of a line) is a  *)
(*                sequence of indices into the list that owns the objects. *)
(*   float        distances and averages are exact rationals, compared by  *)
(*                cross-multiplication.                                    *)
(* Each component has its own specification; the variables of the other    *)
(* components stay at their initial values in it.                          *)
(***************************************************************************)
EXTENDS Integers, Sequences, FiniteSets, TLC

VARIABLES
    \* ---- NECValidator
    violations,        \* self.violations
    nec_call,          \* the last check_* call: its name and arguments
    nec_ret,           \* what that call returned (Optional[CodeViolation],
                       \* or the list of them)
    nec_exc,           \* Optional: the exception that call raised instead
    version,           \* self.version
    nec_tables,        \* the lookup tables of self: wire_ampacity,
                       \* conduit_fill_limits, gfci_locations, afci_locations
    \* ---- SmartTextAssembler.extract_equipment_specs
    blocks,            \* the argument: the list of TextBlocks
    bi,                \* number of blocks the for loop has processed
    specs,             \* the specs dict being filled
    bucket_src,        \* history: for each bucket record, the block and the
                       \* branch ("strict"/"fallback") that appended it
    \* ---- SmartTextAssembler.assemble_text_blocks
    sorted_texts,      \* the argument sorted by (y, x); empty before a call
    asm_pc,            \* position in the pipeline
    gi,                \* _group_into_lines: fragments consumed so far
    current_line,      \* _group_into_lines: the line being accumulated
    lines,             \* the grouped lines
    ti,                \* _detect_tables: the scan index i
    tables,            \* _detect_tables: the tables found so far
    asm_ret,           \* Optional: the list assemble_text_blocks returned
    \* ---- DrawingPreprocessor
    topo_pc,           \* position in analyze_drawing_structure
    equipment_boxes,   \* self.equipment_boxes
    connection_lines,  \* self.connection_lines
    text_regions,      \* self.text_regions
    ri,                \* associate_text_with_lines: regions processed
    li,                \* associate_lines_with_boxes: lines processed
    topology,          \* Optional: the returned topology's main_equipment_idx
    image,             \* self.image, as what OpenCV finds in it: the contour
                       \* rectangles and the Hough segments
    pre_call,          \* the last public method called directly: its name,
                       \* its arguments, and whether the lines were fresh
    \* ---- DrawingScale
    pixels_per_foot,   \* Optional: self.pixels_per_foot
    calibrated,        \* self.calibrated
    scale_call,        \* the last call on the scale: its name, its arguments
                       \* and what it returned or raised
    \* ---- trade_knowledge.validate_electrical_circuit
    circuit,           \* Optional: the circuit under review (the arguments)
    circuit_ret        \* Optional: what validate_electrical_circuit returned
                       \* or raised for it

selfVars == <<violations, version, nec_tables>>
necVars  == <<selfVars, nec_call, nec_ret, nec_exc>>
exVars   == <<blocks, bi, specs, bucket_src>>
asmVars  == <<sorted_texts, asm_pc, gi, current_line, lines, ti,
              tables, asm_ret>>
topoVars == <<topo_pc, equipment_boxes, connection_lines, text_regions,
              ri, li, topology>>
imgVars  == <<image, pre_call>>
scaleVars == <<pixels_per_foot, calibrated, scale_call>>
tkVars   == <<circuit, circuit_ret>>
vars     == <<necVars, exVars, asmVars, topoVars, imgVars, scaleVars,
              tkVars>>

None    == << >>
Some(v) == <<v>>

Abs(n) == IF n < 0 THEN -n ELSE n

SeqsUpTo(S, n) == UNION {[1..k -> S] : k \in 0..n}

(***************************************************************************)
(* Initial values of each component (the state right after construction).  *)
(***************************************************************************)
ExIdle   == /\ blocks = << >>
            /\ bi = 0
            /\ specs = [switchboard_buckets |-> << >>, wire_specs |-> << >>,
                        panel_labels |-> << >>, equipment_ratings |-> << >>]
            /\ bucket_src = << >>
AsmIdle  == /\ sorted_texts = << >>
            /\ asm_pc = "idle"
            /\ gi = 0
            /\ current_line = << >>
            /\ lines = << >>
            /\ ti = 0
            /\ tables = << >>
            /\ asm_ret = None
TopoIdle == /\ topo_pc = "idle"
            /\ equipment_boxes = << >>
            /\ connection_lines = << >>
            /\ text_regions = << >>
            /\ ri = 0
            /\ li = 0
            /\ topology = None
ImgIdle  == /\ image = [contours |-> << >>, segments |-> << >>]
            /\ pre_call = [op |-> "none"]
\* No circuit is under review.
CircuitIdle == circuit = None /\ circuit_ret = None
\* DrawingScale.__init__
ScaleIdle == /\ pixels_per_foot = None
             /\ calibrated = FALSE
             /\ scale_call = [op |-> "none"]

(***************************************************************************)
(*                              NECValidator                               *)
(***************************************************************************)
\* Largest breaker/trip rating tried.
MaxBreaker == 240

\* NECValidator.__init__: self.wire_ampacity (NEC Table 310.16, simplified).
wire_ampacity ==
    "14" :> 15 @@ "12" :> 20 @@ "10" :> 30 @@ "8" :> 50 @@ "6" :> 65 @@
    "4" :> 85 @@ "3" :> 100 @@ "2" :> 115 @@ "1" :> 130 @@ "1/0" :> 150 @@
    "2/0" :> 175 @@ "3/0" :> 200 @@ "4/0" :> 230

\* Gauge strings a caller passes: the table's keys and two kcmil sizes that
\* are not in it.
WireSizes == DOMAIN wire_ampacity \cup {"250", "600"}
BreakerAmps == 0..MaxBreaker

CodeViolation(severity, code_ref, location) ==
    [severity |-> severity, code_ref |-> code_ref, location |-> location]

\* A plausible slip: the comparison with the wire rating off by one.
check_wire_ampacity_offbyone(wire_size, breaker_amps) ==
    IF wire_size \notin DOMAIN wire_ampacity
    THEN Some(CodeViolation("info", "NEC 310.16", ""))
    ELSE LET wire_rating == wire_ampacity[wire_size] IN
         IF breaker_amps >= wire_rating
         THEN Some(CodeViolation("critical", "NEC 310.16", ""))
         ELSE IF breaker_amps = wire_rating
              THEN Some(CodeViolation("warning", "NEC 310.16", ""))
              ELSE None

\* A plausible slip: a gauge that is not in the table passes silently.
check_wire_ampacity_silent(wire_size, breaker_amps) ==
    IF wire_size \notin DOMAIN wire_ampacity
    THEN None
    ELSE LET wire_rating == wire_ampacity[wire_size] IN
         IF breaker_amps > wire_rating
         THEN Some(CodeViolation("critical", "NEC 310.16", ""))
         ELSE IF breaker_amps = wire_rating
              THEN Some(CodeViolation("warning", "NEC 310.16", ""))
              ELSE None

\* NECValidator.check_wire_ampacity
check_wire_ampacity(wire_size, breaker_amps) ==
    IF wire_size \notin DOMAIN wire_ampacity
    THEN Some(CodeViolation("info", "NEC 310.16", ""))
    ELSE LET wire_rating == wire_ampacity[wire_size] IN
         IF breaker_amps > wire_rating
         THEN Some(CodeViolation("critical", "NEC 310.16", ""))
         ELSE IF breaker_amps = wire_rating
              THEN Some(CodeViolation("warning", "NEC 310.16", ""))
              ELSE None

\* NECVersion
NECVersions == {"2017", "2020", "2023"}

\* NECValidator.__init__: self.conduit_fill_limits, self.gfci_locations,
\* self.afci_locations
conduit_fill_limits == "1_wire" :> 53 @@ "2_wires" :> 31 @@ "3+_wires" :> 40
gfci_locations ==
    << <<"b", "a", "t", "h", "r", "o", "o", "m">>,
       <<"k", "i", "t", "c", "h", "e", "n">>,
       <<"o", "u", "t", "d", "o", "o", "r">>,
       <<"b", "a", "s", "e", "m", "e", "n", "t">>,
       <<"g", "a", "r", "a", "g", "e">>,
       <<"c", "r", "a", "w", "l", " ", "s", "p", "a", "c", "e">>,
       <<"l", "a", "u", "n", "d", "r", "y">>,
       <<"u", "t", "i", "l", "i", "t", "y">>,
       <<"w", "e", "t", " ", "b", "a", "r">>,
       <<"s", "i", "n", "k">> >>
afci_locations ==
    << <<"b", "e", "d", "r", "o", "o", "m">>,
       <<"f", "a", "m", "i", "l", "y", " ", "r", "o", "o", "m">>,
       <<"d", "i", "n", "i", "n", "g", " ", "r", "o", "o", "m">>,
       <<"l", "i", "v", "i", "n", "g", " ", "r", "o", "o", "m">>,
       <<"p", "a", "r", "l", "o", "r">>,
       <<"l", "i", "b", "r", "a", "r", "y">>,
       <<"d", "e", "n">>,
       <<"s", "u", "n", "r", "o", "o", "m">>,
       <<"r", "e", "c", "r", "e", "a", "t", "i", "o", "n", " ", "r", "o",
         "o", "m">>,
       <<"c", "l", "o", "s", "e", "t">>,
       <<"h", "a", "l", "l", "w", "a", "y">>,
       <<"l", "a", "u", "n", "d", "r", "y">> >>

\* The lookup tables NECValidator.__init__ builds
NecTables ==
    [wire_ampacity |-> wire_ampacity,
     conduit_fill_limits |-> conduit_fill_limits,
     gfci_locations |-> gfci_locations,
     afci_locations |-> afci_locations]

\* The validator as NECValidator() leaves it, no call made yet.
NecIdle  == /\ violations = << >>
            /\ nec_call = [op |-> "none"]
            /\ nec_ret = None
            /\ nec_exc = None
            /\ version = "2023"
            /\ nec_tables = NecTables

\* An exception leaving a method
Raise(e) == <<[raised |-> e]>>
IsRaise(r) == r # None /\ "raised" \in DOMAIN r[1]

\* check_voltage_drop: resistance per 1000 ft of copper wire, in units of
\* 0.0001 ohm.
wire_resistance ==
    "14" :> 30700 @@ "12" :> 19300 @@ "10" :> 12100 @@ "8" :> 7640 @@
    "6" :> 4910 @@ "4" :> 3080 @@ "3" :> 2450 @@ "2" :> 1940 @@
    "1" :> 1540 @@ "1/0" :> 1220 @@ "2/0" :> 967 @@ "3/0" :> 766 @@
    "4/0" :> 608

\* vd_percentage > 3, for voltage # 0.  With r the resistance in 0.0001 ohm,
\* vd_percentage = (2 * r/10000 * I * L / 1000) / voltage * 100
\*               = r * I * L / (50000 * voltage).
VoltageDropAbove3(r, length_feet, current_amps, voltage) ==
    IF voltage > 0
    THEN r * current_amps * length_feet > 150000 * voltage
    ELSE r * current_amps * length_feet < 150000 * voltage

\* A plausible slip: a zero voltage treated as "nothing to check".
check_voltage_drop_guarded(wire_size, length_feet, current_amps, voltage) ==
    IF wire_size \notin DOMAIN wire_resistance \/ voltage = 0
    THEN None
    ELSE IF VoltageDropAbove3(wire_resistance[wire_size], length_feet,
                              current_amps, voltage)
         THEN Some(CodeViolation("warning", "NEC 210.19(A) FPN No. 4",
                                 <<length_feet, "ft run">>))
         ELSE None

\* NECValidator.check_voltage_drop: the returned value, or Raise(e) when the
\* division by voltage raises.
check_voltage_drop(wire_size, length_feet, current_amps, voltage) ==
    IF wire_size \notin DOMAIN wire_resistance
    THEN None
    ELSE IF voltage = 0
         THEN Raise("ZeroDivisionError")
         ELSE IF VoltageDropAbove3(wire_resistance[wire_size], length_feet,
                                   current_amps, voltage)
              THEN Some(CodeViolation("warning", "NEC 210.19(A) FPN No. 4",
                                      <<length_feet, "ft run">>))
              ELSE None

\* Arguments a caller passes to check_voltage_drop: zero, a run at the 3%
\* line (gauge 10, 100 ft, 15 A, 121 V) and a negative voltage among them.
LengthsFeet == {0, 50, 100, 101}
CurrentAmps == {0, 15, 20}
Voltages == {0, 120, 121, 240, -120}

\* A call of check_wire_ampacity on the validator (calls do not overlap: the
\* code is synchronous, so a call starts when no result is pending).
CheckWireAmpacity ==
    /\ nec_call.op = "none"
    /\ \E w \in WireSizes, b \in BreakerAmps :
        /\ nec_call' = [op |-> "check_wire_ampacity", wire_size |-> w,
                        breaker_amps |-> b]
        /\ nec_ret' = check_wire_ampacity(w, b)
        /\ nec_exc' = None
        /\ UNCHANGED selfVars
        /\ UNCHANGED <<exVars, asmVars, topoVars, imgVars, scaleVars, tkVars>>

\* Wires listed in one check_conduit_fill call.
MaxWires == 3

\* check_conduit_fill: EMT inner diameters, in units of 0.001 inch.
conduit_diameters ==
    "1/2" :> 622 @@ "3/4" :> 824 @@ "1" :> 1049 @@ "1-1/4" :> 1380 @@
    "1-1/2" :> 1610 @@ "2" :> 2067 @@ "2-1/2" :> 2469 @@ "3" :> 3068 @@
    "4" :> 4026

\* check_conduit_fill: THHN cross-sections, in units of 0.0001 sq inch.
wire_areas ==
    "14" :> 97 @@ "12" :> 133 @@ "10" :> 211 @@ "8" :> 366 @@
    "6" :> 507 @@ "4" :> 824 @@ "3" :> 973 @@ "2" :> 1158 @@
    "1" :> 1562 @@ "1/0" :> 1855 @@ "2/0" :> 2223 @@ "3/0" :> 2679 @@
    "4/0" :> 3237

RECURSIVE FracGreater(_, _, _, _)
\* a/b > c/e for naturals a, c and positive b, e, by comparing the integer
\* parts and then the reciprocals of the fractional parts (no product is
\* formed, so no intermediate value exceeds the arguments).
FracGreater(a, b, c, e) ==
    LET qa == a \div b
        qc == c \div e
        ra == a % b
        rc == c % e
    IN  IF qa # qc THEN qa > qc
        ELSE IF ra = 0 THEN FALSE
        ELSE IF rc = 0 THEN TRUE
        ELSE FracGreater(e, rc, b, ra)

RECURSIVE TotalWireArea(_)
\* sum(wire_areas.get(size, 0) for size in wire_sizes)
TotalWireArea(wire_sizes) ==
    IF wire_sizes = << >> THEN 0
    ELSE (IF wire_sizes[1] \in DOMAIN wire_areas
          THEN wire_areas[wire_sizes[1]] ELSE 0)
         + TotalWireArea(Tail(wire_sizes))

\* actual_fill_pct > num/den.  With t the total wire area in 0.0001 sq in
\* and d the diameter in 0.001 in, conduit_area = 3.14159 * (d/2000)^2 and
\* actual_fill_pct = t/10000 / conduit_area * 100
\*                 = (t * 10000 / d^2) * (400000 / 314159).
FillAbove(t, d, num, den) ==
    FracGreater(t * 10000, d * d, num * 314159, den * 400000)

\* A plausible slip: the two-wire branch missing.
MaxFillPctNoPair(wire_count) ==
    IF wire_count = 1 THEN 53
    ELSE 40

\* The fill limit chosen by wire_count
MaxFillPct(wire_count) ==
    IF wire_count = 1 THEN 53
    ELSE IF wire_count = 2 THEN 31
    ELSE 40

\* NECValidator.check_conduit_fill
check_conduit_fill(conduit_size, wire_count, wire_sizes) ==
    IF conduit_size \notin DOMAIN conduit_diameters
    THEN None
    ELSE LET total_wire_area == TotalWireArea(wire_sizes)
             d               == conduit_diameters[conduit_size]
             max_fill_pct    == MaxFillPct(wire_count)
         IN  IF FillAbove(total_wire_area, d, max_fill_pct, 1)
             THEN Some(CodeViolation("critical", "NEC Chapter 9, Table 1",
                                     ""))
             ELSE IF FillAbove(total_wire_area, d, 4 * max_fill_pct, 5)
             THEN Some(CodeViolation("warning", "NEC Chapter 9, Table 1",
                                     ""))
             ELSE None

\* Arguments a caller passes to check_conduit_fill: the table's trade sizes
\* and one that is not in it; wire counts from zero; gauges of the table
\* and one that is not in it.
ConduitSizes == DOMAIN conduit_diameters \cup {"5"}
WireCounts == 0..4
FillWireSizes == {"12", "1", "1/0", "4/0", "750"}

\* What a method call leaves in nec_ret' and nec_exc', r being the returned
\* value or Raise(e).
Outcome(r) ==
    /\ nec_ret' = (IF IsRaise(r) THEN None ELSE r)
    /\ nec_exc' = (IF IsRaise(r) THEN Some(r[1].raised) ELSE None)

\* A call of check_voltage_drop on the validator
CheckVoltageDrop ==
    /\ nec_call.op = "none"
    /\ \E w \in WireSizes, l \in LengthsFeet, c \in CurrentAmps,
          v \in Voltages :
        /\ nec_call' = [op |-> "check_voltage_drop", wire_size |-> w,
                        length_feet |-> l, current_amps |-> c,
                        voltage |-> v]
        /\ Outcome(check_voltage_drop(w, l, c, v))
        /\ UNCHANGED selfVars
        /\ UNCHANGED <<exVars, asmVars, topoVars, imgVars, scaleVars, tkVars>>

\* A call of check_conduit_fill on the validator
CheckConduitFill ==
    /\ nec_call.op = "none"
    /\ \E cs \in ConduitSizes, n \in WireCounts,
          ws \in SeqsUpTo(FillWireSizes, MaxWires) :
        /\ nec_call' = [op |-> "check_conduit_fill", conduit_size |-> cs,
                        wire_count |-> n, wire_sizes |-> ws]
        /\ Outcome(check_conduit_fill(cs, n, ws))
        /\ UNCHANGED selfVars
        /\ UNCHANGED <<exVars, asmVars, topoVars, imgVars, scaleVars, tkVars>>

\* The caller takes the returned value; the validator is ready for the next
\* call.
NecReturn ==
    /\ nec_call.op # "none"
    /\ nec_call' = [op |-> "none"]
    /\ nec_ret' = None
    /\ nec_exc' = None
    /\ UNCHANGED selfVars
    /\ UNCHANGED <<exVars, asmVars, topoVars, imgVars, scaleVars, tkVars>>

InitNEC ==
    /\ NecIdle /\ ExIdle /\ AsmIdle /\ TopoIdle /\ ImgIdle
    /\ ScaleIdle /\ CircuitIdle
NextNEC ==
    \/ CheckWireAmpacity
    \/ CheckVoltageDrop
    \/ CheckConduitFill
    \/ NecReturn
SpecNEC == InitNEC /\ [][NextNEC]_vars

\* ---- C1
IsSeverity(ret, sev) == ret # None /\ ret[1].severity = sev

\* C1: for a gauge of the ampacity table and any integer trip rating,
\* check_wire_ampacity returns a critical record iff ampacity < trip, a
\* warning record iff ampacity = trip, and None iff ampacity > trip.
C1_AmpacityVerdict ==
    (nec_call.op = "check_wire_ampacity"
        /\ nec_call.wire_size \in DOMAIN wire_ampacity) =>
    LET amp  == wire_ampacity[nec_call.wire_size]
        trip == nec_call.breaker_amps
    IN  /\ IsSeverity(nec_ret, "critical") <=> amp < trip
        /\ IsSeverity(nec_ret, "warning") <=> amp = trip
        /\ nec_ret = None <=> amp > trip

\* Gauge "2" at its own ampacity, 115 A: the warning case.
C1_Witness ==
    /\ nec_call.op = "check_wire_ampacity"
    /\ nec_call.wire_size = "2"
    /\ nec_call.breaker_amps = 115
    /\ IsSeverity(nec_ret, "warning")


(***************************************************************************)
(*             SmartTextAssembler.extract_equipment_specs                  *)
(* Text is a sequence of characters.  The regular expressions of the code  *)
(* are matched as Python's re matches them: leftmost, greedy.  In each of  *)
(* them a greedy item is followed by an item that cannot start with a      *)
(* character the greedy item accepts, so giving characters back never      *)
(* turns a failed attempt into a match, and the greedy attempt is the      *)
(* match.                                                                  *)
(***************************************************************************)
\* Words per generated block text, and blocks per call.
MaxWords == 4
MaxBlocks == 2

Digits == {"0", "1", "2", "3", "4", "5", "6", "7", "8", "9"}
Spaces == {" ", "\t", "\n", "\r", "\f"}
Lower  == <<"a", "b", "c", "d", "e", "f", "g", "h", "i", "j", "k", "l", "m",
            "n", "o", "p", "q", "r", "s", "t", "u", "v", "w", "x", "y", "z">>
Upper  == <<"A", "B", "C", "D", "E", "F", "G", "H", "I", "J", "K", "L", "M",
            "N", "O", "P", "Q", "R", "S", "T", "U", "V", "W", "X", "Y", "Z">>

\* str.upper() on one character, and on a text
UpperOf == [c \in {Lower[k] : k \in 1..26} |->
                Upper[CHOOSE k \in 1..26 : Lower[k] = c]]
UpperChar(c) == IF c \in DOMAIN UpperOf THEN UpperOf[c] ELSE c
ToUpper(s) == [k \in 1..Len(s) |-> UpperChar(s[k])]

\* The character at position p (1-based), "" past the end.
At(s, p) == IF p >= 1 /\ p <= Len(s) THEN s[p] ELSE ""

\* \d* , \s* and c? from position p: the position after the greedy match.
RECURSIVE SkipDigits(_, _)
SkipDigits(s, p) == IF At(s, p) \in Digits THEN SkipDigits(s, p + 1) ELSE p
RECURSIVE SkipSpaces(_, _)
SkipSpaces(s, p) == IF At(s, p) \in Spaces THEN SkipSpaces(s, p + 1) ELSE p
SkipOpt(s, p, c) == IF At(s, p) = c THEN p + 1 ELSE p

\* `sub in s`
Contains(s, sub) ==
    \E k \in 1..(Len(s) - Len(sub) + 1) : SubSeq(s, k, k + Len(sub) - 1) = sub

NoMatch == [ok |-> FALSE]

\* bucket_pattern = (\d+)\s*A?\s*F\s*/?\s*(\d+)\s*A?\s*(T|S|E), tried at p
BucketMatchAt(s, p) ==
    LET d1 == SkipDigits(s, p)
        f  == SkipSpaces(s, SkipOpt(s, SkipSpaces(s, d1), "A"))
        n2 == SkipSpaces(s, SkipOpt(s, SkipSpaces(s, f + 1), "/"))
        d2 == SkipDigits(s, n2)
        t  == SkipSpaces(s, SkipOpt(s, SkipSpaces(s, d2), "A"))
    IN  IF d1 > p /\ At(s, f) = "F" /\ d2 > n2 /\ At(s, t) \in {"T", "S", "E"}
        THEN [ok |-> TRUE, frame |-> SubSeq(s, p, d1 - 1),
              trip |-> SubSeq(s, n2, d2 - 1), letter |-> s[t], end |-> t + 1]
        ELSE NoMatch

\* re.findall(bucket_pattern, s): the non-overlapping matches, left to right
RECURSIVE BucketFindAll(_, _)
BucketFindAll(s, p) ==
    IF p > Len(s) THEN << >>
    ELSE LET m == BucketMatchAt(s, p) IN
         IF m.ok THEN <<m>> \o BucketFindAll(s, m.end)
         ELSE BucketFindAll(s, p + 1)

\* (\d+)\s*A?\s*F tried at p
FrameMatchAt(s, p) ==
    LET d1 == SkipDigits(s, p)
        f  == SkipSpaces(s, SkipOpt(s, SkipSpaces(s, d1), "A"))
    IN  IF d1 > p /\ At(s, f) = "F"
        THEN [ok |-> TRUE, g1 |-> SubSeq(s, p, d1 - 1)]
        ELSE NoMatch

\* (\d+)\s*A?\s*([TSE]) tried at p
TripMatchAt(s, p) ==
    LET d1 == SkipDigits(s, p)
        t  == SkipSpaces(s, SkipOpt(s, SkipSpaces(s, d1), "A"))
    IN  IF d1 > p /\ At(s, t) \in {"T", "S", "E"}
        THEN [ok |-> TRUE, g1 |-> SubSeq(s, p, d1 - 1), g2 |-> s[t]]
        ELSE NoMatch

\* re.search: the match at the leftmost position that has one
RECURSIVE FrameSearchFrom(_, _)
FrameSearchFrom(s, p) ==
    IF p > Len(s) THEN NoMatch
    ELSE IF FrameMatchAt(s, p).ok THEN FrameMatchAt(s, p)
    ELSE FrameSearchFrom(s, p + 1)
FrameSearch(s) == FrameSearchFrom(s, 1)
RECURSIVE TripSearchFrom(_, _)
TripSearchFrom(s, p) ==
    IF p > Len(s) THEN NoMatch
    ELSE IF TripMatchAt(s, p).ok THEN TripMatchAt(s, p)
    ELSE TripSearchFrom(s, p + 1)
TripSearch(s) == TripSearchFrom(s, 1)

\* The literal `lit` (upper case) at p, ignoring case
LitAt(s, p, lit) == \A k \in 1..Len(lit) : UpperChar(At(s, p + k - 1)) = lit[k]

\* \w, and \b between positions p - 1 and p
WordChars == Digits \cup {"_"} \cup {Lower[k] : k \in 1..26}
                \cup {Upper[k] : k \in 1..26}
IsWordChar(c) == c \in WordChars
WordBoundary(s, p) == IsWordChar(At(s, p - 1)) # IsWordChar(At(s, p))

\* The literal `lit` stands at p, letter case as written
ExactAt(s, p, lit) == \A k \in 1..Len(lit) : At(s, p + k - 1) = lit[k]

\* A plausible slip: the wire pattern searched without re.IGNORECASE.
WireSearchCaseSensitive(s) ==
    \E p \in 1..Len(s) :
        LET u == SkipSpaces(s, SkipDigits(s, p)) IN
        /\ s[p] \in Digits
        /\ \/ ExactAt(s, u, <<"k", "c", "m", "i", "l">>)
           \/ ExactAt(s, u, <<"K", "C", "M", "I", "L">>)
           \/ ExactAt(s, u, <<"M", "C", "M">>)
           \/ ExactAt(s, u, <<"k", "c", "m">>)
           \/ ExactAt(s, u, <<"K", "C", "M">>)

\* re.search(r'(\d+)\s*(?:kcmil|KCMIL|MCM|kcm|KCM)', text, re.IGNORECASE)
WireSearch(s) ==
    \E p \in 1..Len(s) :
        LET u == SkipSpaces(s, SkipDigits(s, p)) IN
        /\ s[p] \in Digits
        /\ \/ LitAt(s, u, <<"K", "C", "M", "I", "L">>)
           \/ LitAt(s, u, <<"M", "C", "M">>)
           \/ LitAt(s, u, <<"K", "C", "M">>)

\* re.search(r'(PP|LP|RP|DP|MDP)\s*-?\s*\d+', text, re.IGNORECASE)
PanelSearch(s) ==
    \E p \in 1..Len(s) :
        \E lit \in {<<"P", "P">>, <<"L", "P">>, <<"R", "P">>, <<"D", "P">>,
                    <<"M", "D", "P">>} :
            /\ LitAt(s, p, lit)
            /\ At(s, SkipSpaces(s, SkipOpt(s, SkipSpaces(s, p + Len(lit)),
                                           "-"))) \in Digits

\* re.search(r'(\d+)\s*(?:A\b|AMP|KVA|HP|TON|kva|hp|ton)', text, re.IGNORECASE)
RatingSearch(s) ==
    \E p \in 1..Len(s) :
        LET u == SkipSpaces(s, SkipDigits(s, p)) IN
        /\ s[p] \in Digits
        /\ \/ LitAt(s, u, <<"A">>) /\ WordBoundary(s, u + 1)
           \/ LitAt(s, u, <<"A", "M", "P">>)
           \/ LitAt(s, u, <<"K", "V", "A">>)
           \/ LitAt(s, u, <<"H", "P">>)
           \/ LitAt(s, u, <<"T", "O", "N">>)

\* dataclass TextBlock
TextBlock(frags, combined_text, x, y, width, height, confidence) ==
    [texts |-> frags, combined_text |-> combined_text, x |-> x, y |-> y,
     width |-> width, height |-> height, confidence |-> confidence,
     is_table_row |-> FALSE, row_number |-> None]

BucketRecord(block, frame, trip, trip_type) ==
    [text |-> block.combined_text, frame |-> frame, trip |-> trip,
     trip_type |-> trip_type, location |-> <<block.x, block.y>>]
TextRecord(block) ==
    [text |-> block.combined_text, location |-> <<block.x, block.y>>]

AT == <<"A", "T">>
AS == <<"A", "S">>
AE == <<"A", "E">>
AF == <<"A", "F">>

\* The strict branch's trip type: AT/AS/AE anywhere in the text, also written
\* "A T", before the captured letter.
StrictTripType(text_upper, letter) ==
    IF Contains(text_upper, AT) \/ Contains(text_upper, <<"A", " ", "T">>)
    THEN AT
    ELSE IF Contains(text_upper, AS) \/ Contains(text_upper, <<"A", " ", "S">>)
    THEN AS
    ELSE IF Contains(text_upper, AE) \/ Contains(text_upper, <<"A", " ", "E">>)
    THEN AE
    ELSE <<"A", letter>>

FallbackTripType(text_upper, letter) ==
    IF Contains(text_upper, AT) THEN AT
    ELSE IF Contains(text_upper, AS) THEN AS
    ELSE IF Contains(text_upper, AE) THEN AE
    ELSE <<"A", letter>>

\* The records the strict pattern appends for a block: one per match.
StrictBuckets(block) ==
    LET text_upper == ToUpper(block.combined_text)
        matches    == BucketFindAll(text_upper, 1)
    IN  [k \in 1..Len(matches) |->
            BucketRecord(block, matches[k].frame, matches[k].trip,
                         StrictTripType(text_upper, matches[k].letter))]

\* The record the fallback heuristic builds when its 'AF' and 'AT'/'AS'/'AE'
\* substring tests and its two searches succeed (<< >> when one fails).
FallbackCandidate(block) ==
    LET text_upper  == ToUpper(block.combined_text)
        frame_match == FrameSearch(text_upper)
        trip_match  == TripSearch(text_upper)
    IN  IF /\ Contains(text_upper, AF)
           /\ \/ Contains(text_upper, AT)
              \/ Contains(text_upper, AS)
              \/ Contains(text_upper, AE)
           /\ frame_match.ok /\ trip_match.ok
        THEN <<BucketRecord(block, frame_match.g1, trip_match.g1,
                            FallbackTripType(text_upper, trip_match.g2))>>
        ELSE << >>

\* A plausible slip: the fallback without its "text not already recorded"
\* test.
FallbackBucketsNoDedup(block, buckets) == FallbackCandidate(block)

\* The records the fallback heuristic appends for a block, `buckets` being
\* specs['switchboard_buckets'] after the strict branch.
FallbackBuckets(block, buckets) ==
    IF \E k \in 1..Len(buckets) : buckets[k].text = block.combined_text
    THEN << >>
    ELSE FallbackCandidate(block)

\* One iteration of `for block in blocks` on the specs dict `sp`: `strict`
\* and `fallbk` are the bucket records its two branches append.
ExtractBlock(sp, block, strict, fallbk) ==
    LET text == block.combined_text IN
    [switchboard_buckets |-> sp.switchboard_buckets \o strict \o fallbk,
     wire_specs |-> sp.wire_specs \o
        (IF WireSearch(text) THEN <<TextRecord(block)>> ELSE << >>),
     panel_labels |-> sp.panel_labels \o
        (IF PanelSearch(text) THEN <<TextRecord(block)>> ELSE << >>),
     equipment_ratings |-> sp.equipment_ratings \o
        (IF RatingSearch(text) THEN <<TextRecord(block)>> ELSE << >>)]

\* ---- the texts the blocks carry
BucketWords ==
    { <<"2", "2", "5", "A", "F">>,
      <<"1", "1", "0", "A", "T">>,
      <<"3", "0", "0", "a", " ", "s">>,
      <<"/">>,
      <<" ">>,
      <<"3", " ", "S", "E", "T", "S">> }

RECURSIVE WordTexts(_, _)
\* The concatenations of 1..n words
WordTexts(words, n) ==
    IF n = 0 THEN {}
    ELSE words \cup {t \o w : t \in WordTexts(words, n - 1), w \in words}

BucketTexts == WordTexts(BucketWords, MaxWords)

\* Wire-size texts a block may carry: the kcmil unit variants, an AWG gauge,
\* a bare number.
WireTexts ==
    { <<"6", "0", "0", " ", "k", "c", "m", "i", "l">>,
      <<"6", "0", "0", "k", "c", "m", "i", "l">>,
      <<"6", "0", "0", " ", "K", "C", "M", "I", "L">>,
      <<"6", "0", "0", " ", "M", "C", "M">>,
      <<"6", "0", "0", " ", "k", "c", "m">>,
      <<"6", "0", "0", " ", "m", "c", "m">>,
      <<"6", "0", "0", " ", "K", "c", "m", "i", "l">>,
      <<"#", "1", "/", "0">>,
      <<"#", "1", "/", "0", " ", "A", "W", "G">>,
      <<"6", "0", "0">> }

\* The k-th block of the argument list sits at its own place on the sheet.
InputBlock(text, k) == TextBlock(<< >>, text, 100 * k, 40 * k, 80, 12, <<9, 10>>)

\* A text of its own that a later block may carry
OtherText == <<"2", "2", "5", "A", "F", "/", "1", "1", "0", "A", "T">>

\* The for loop takes the next block of the argument list: any text for the
\* first block, and for a later one the first block's text again or
\* OtherText.
ExtractNextBlock ==
    /\ bi < MaxBlocks
    /\ \E text \in (IF bi = 0 THEN BucketTexts \cup WireTexts
                    ELSE {blocks[1].combined_text, OtherText}) :
        LET block == InputBlock(text, bi + 1)
            strict == StrictBuckets(block)
            fallbk == FallbackBuckets(block,
                                      specs.switchboard_buckets \o strict)
        IN  /\ blocks' = Append(blocks, block)
            /\ bi' = bi + 1
            /\ specs' = ExtractBlock(specs, block, strict, fallbk)
            /\ bucket_src' = bucket_src
                 \o [k \in 1..Len(strict) |->
                        [block |-> bi + 1, via |-> "strict"]]
                 \o [k \in 1..Len(fallbk) |->
                        [block |-> bi + 1, via |-> "fallback"]]
    /\ UNCHANGED <<necVars, asmVars, topoVars, imgVars, scaleVars, tkVars>>

\* extract_equipment_specs returned; a new call starts with an empty dict.
ExtractRestart ==
    /\ bi > 0
    /\ blocks' = << >>
    /\ bi' = 0
    /\ specs' = [switchboard_buckets |-> << >>, wire_specs |-> << >>,
                 panel_labels |-> << >>, equipment_ratings |-> << >>]
    /\ bucket_src' = << >>
    /\ UNCHANGED <<necVars, asmVars, topoVars, imgVars, scaleVars, tkVars>>

InitExtract ==
    /\ NecIdle /\ ExIdle /\ AsmIdle /\ TopoIdle /\ ImgIdle
    /\ ScaleIdle /\ CircuitIdle
NextExtract == ExtractNextBlock \/ ExtractRestart
SpecExtract == InitExtract /\ [][NextExtract]_vars


(***************************************************************************)
(*               SmartTextAssembler.assemble_text_blocks                   *)
(* sorted_texts owns the fragments; a line, and a block's texts, list      *)
(* fragments by their index in sorted_texts.                               *)
(***************************************************************************)
\* Fragments per call.
MaxFrags == 3

\* SmartTextAssembler.__init__
vertical_threshold == 15
table_alignment_threshold == 10

\* dataclass ExtractedText; confidence in percent
ExtractedText(text, x, y, width, height, confidence) ==
    [text |-> text, x |-> x, y |-> y, width |-> width, height |-> height,
     confidence |-> confidence]
center_y(t) == t.y + t.height \div 2

\* The fragments OCR may deliver: four places across (a wide fragment at 0,
\* one inside it at 10, one 5 pixels right of its end, one 6 pixels right
\* of that one's end) on five heights (vertical centres 5, 20, 35, 51, 75),
\* and a second text at the first place.
FragPlaces ==
    {<<0, 30, <<"2", "2", "5">> >>, <<10, 10, <<"/">> >>,
     <<35, 10, <<"A", "F">> >>, <<51, 10, <<"1", "1", "0", "A", "T">> >>}
FragRows == {<<0, 10, 95>>, <<15, 10, 90>>, <<25, 20, 80>>, <<46, 10, 70>>,
             <<70, 10, 60>>}
FragChoices ==
    {ExtractedText(p[3], p[1], r[1], p[2], r[2], r[3]) :
        p \in FragPlaces, r \in FragRows}
    \cup {ExtractedText(<<"P", "P", "-", "1">>, 0, 0, 30, 10, 50)}


Last(seq) == seq[Len(seq)]
Front(seq) == SubSeq(seq, 1, Len(seq) - 1)

\* sorted(texts, key=lambda t: (t.y, t.x)): stable
KeyYXLessEq(a, b) == a.y < b.y \/ (a.y = b.y /\ a.x <= b.x)
RECURSIVE InsertByYX(_, _)
InsertByYX(sorted, t) ==
    IF sorted = << >> \/ KeyYXLessEq(Last(sorted), t)
    THEN Append(sorted, t)
    ELSE Append(InsertByYX(Front(sorted), t), Last(sorted))
RECURSIVE SortByYX(_)
SortByYX(seq) ==
    IF seq = << >> THEN << >>
    ELSE InsertByYX(SortByYX(Front(seq)), Last(seq))

\* line.sort(key=lambda t: t.x): stable, on a list of fragment indices
RECURSIVE InsertByX(_, _, _)
InsertByX(frags, sorted, k) ==
    IF sorted = << >> \/ frags[Last(sorted)].x <= frags[k].x
    THEN Append(sorted, k)
    ELSE Append(InsertByX(frags, Front(sorted), k), Last(sorted))
RECURSIVE SortByX(_, _)
SortByX(frags, line) ==
    IF line = << >> THEN << >>
    ELSE InsertByX(frags, SortByX(frags, Front(line)), Last(line))

\* A plausible slip: the vertical test strict.
SameLineStrict(text, last_text) ==
    Abs(center_y(text) - center_y(last_text)) < vertical_threshold

\* _group_into_lines: y_dist <= self.vertical_threshold
SameLine(text, last_text) ==
    Abs(center_y(text) - center_y(last_text)) <= vertical_threshold

RECURSIVE SumOver(_, _)
SumOver(seq, n) == IF n = 0 THEN 0 ELSE SumOver(seq, n - 1) + seq[n]

\* _is_aligned_row; the two averages are compared exactly
IsAlignedRow(frags, existing_rows, new_row) ==
    LET n      == Len(existing_rows)
        cols   == SumOver([k \in 1..n |-> Len(existing_rows[k])], n)
        firstx == SumOver([k \in 1..n |-> frags[existing_rows[k][1]].x], n)
    IN  /\ existing_rows # << >> /\ new_row # << >>
        /\ ~(Abs(Len(new_row) * n - cols) > 2 * n)
        /\ ~(Abs(frags[new_row[1]].x * n - firstx)
               > table_alignment_threshold * n)

Min2(a, b) == IF a < b THEN a ELSE b

\* _extract_table_rows, the loop: the candidate rows from line i (0-based)
\* on, `rows` collected so far, `stop` the end of the range
RECURSIVE CandidateRowsFrom(_, _, _, _, _)
CandidateRowsFrom(frags, lns, i, stop, rows) ==
    IF i >= stop THEN rows
    ELSE IF rows = << >>
    THEN CandidateRowsFrom(frags, lns, i + 1, stop, <<lns[i + 1]>>)
    ELSE IF IsAlignedRow(frags, rows, lns[i + 1])
    THEN CandidateRowsFrom(frags, lns, i + 1, stop, Append(rows, lns[i + 1]))
    ELSE rows
\* A plausible slip: the range not cut at start_idx + 20.
CandidateRowsUncapped(frags, lns, start_idx) ==
    CandidateRowsFrom(frags, lns, start_idx, Len(lns), << >>)
CandidateRows(frags, lns, start_idx) ==
    CandidateRowsFrom(frags, lns, start_idx,
                      Min2(start_idx + 20, Len(lns)), << >>)

\* A plausible slip: the row threshold strict.
ExtractTableRowsStrict(frags, lns, start_idx) ==
    IF start_idx >= Len(lns) THEN << >>
    ELSE LET candidate_rows == CandidateRows(frags, lns, start_idx) IN
         IF Len(candidate_rows) > 3 THEN candidate_rows ELSE << >>

\* _extract_table_rows
ExtractTableRows(frags, lns, start_idx) ==
    IF start_idx >= Len(lns) THEN << >>
    ELSE LET candidate_rows == CandidateRows(frags, lns, start_idx) IN
         IF Len(candidate_rows) >= 3 THEN candidate_rows ELSE << >>

\* A plausible slip: the word gap test off by one.
NeedsSpaceOffByOne(t, next_text) == next_text.x - (t.x + t.width) >= 5

\* _merge_line_into_block: gap > 5
NeedsSpace(t, next_text) == next_text.x - (t.x + t.width) > 5

\* _merge_line_into_block: "".join(combined_parts), from fragment i of the
\* (sorted) line on
RECURSIVE CombinedFrom(_, _, _)
CombinedFrom(frags, line, i) ==
    IF i > Len(line) THEN << >>
    ELSE frags[line[i]].text
         \o (IF i < Len(line) /\ NeedsSpace(frags[line[i]], frags[line[i + 1]])
             THEN <<" ">> ELSE << >>)
         \o CombinedFrom(frags, line, i + 1)

RECURSIVE MinOver(_, _)
MinOver(seq, n) ==
    IF n = 1 THEN seq[1] ELSE Min2(MinOver(seq, n - 1), seq[n])
RECURSIVE MaxOver(_, _)
MaxOver(seq, n) ==
    IF n = 1 THEN seq[1]
    ELSE LET m == MaxOver(seq, n - 1) IN IF seq[n] > m THEN seq[n] ELSE m

\* A plausible slip: the box taken from the first and the last fragment.
BoundingBoxEnds(frags, line) ==
    LET n == Len(line)
        x == frags[line[1]].x
        y == frags[line[1]].y
    IN  [x |-> x, y |-> y,
         width |-> frags[line[n]].x + frags[line[n]].width - x,
         height |-> frags[line[n]].y + frags[line[n]].height - y]

\* _merge_line_into_block: the bounding box
BoundingBox(frags, line) ==
    LET n     == Len(line)
        x     == MinOver([k \in 1..n |-> frags[line[k]].x], n)
        y     == MinOver([k \in 1..n |-> frags[line[k]].y], n)
        max_x == MaxOver([k \in 1..n |->
                            frags[line[k]].x + frags[line[k]].width], n)
        max_y == MaxOver([k \in 1..n |->
                            frags[line[k]].y + frags[line[k]].height], n)
    IN  [x |-> x, y |-> y, width |-> max_x - x, height |-> max_y - y]

\* _merge_line_into_block (line is never empty here); the average confidence
\* is the pair <<sum, count>>
MergeLineIntoBlock(frags, line0) ==
    LET line == SortByX(frags, line0)
        box  == BoundingBox(frags, line)
        n    == Len(line)
    IN  TextBlock(line, CombinedFrom(frags, line, 1), box.x, box.y,
                  box.width, box.height,
                  <<SumOver([k \in 1..n |-> frags[line[k]].confidence], n),
                    n>>)

\* _detect_tables: the TextBlocks of a confirmed table
TableBlocks(frags, table_rows) ==
    [k \in 1..Len(table_rows) |->
        [MergeLineIntoBlock(frags, table_rows[k])
            EXCEPT !.is_table_row = TRUE, !.row_number = Some(k - 1)]]

RECURSIVE Flatten(_)
Flatten(seqs) ==
    IF seqs = << >> THEN << >> ELSE Flatten(Front(seqs)) \o Last(seqs)

\* assemble_text_blocks is called: the empty list returns at once; otherwise
\* the fragments are sorted and _group_into_lines starts its first line.
AssembleCall ==
    /\ asm_pc = "idle"
    /\ \E arg \in SeqsUpTo(FragChoices, MaxFrags) :
        /\ IF arg = << >>
           THEN /\ sorted_texts' = arg
                /\ asm_ret' = Some(<< >>)
                /\ asm_pc' = "done"
                /\ UNCHANGED <<gi, current_line>>
           ELSE /\ sorted_texts' = SortByYX(arg)
                /\ current_line' = <<1>>
                /\ gi' = 1
                /\ asm_pc' = "group"
                /\ UNCHANGED asm_ret
    /\ UNCHANGED <<lines, ti, tables>>
    /\ UNCHANGED <<necVars, exVars, topoVars, imgVars, scaleVars, tkVars>>

\* _group_into_lines: one iteration of `for text in texts[1:]`
GroupStep ==
    /\ asm_pc = "group"
    /\ gi < Len(sorted_texts)
    /\ LET text      == sorted_texts[gi + 1]
           last_text == sorted_texts[Last(current_line)]
       IN  IF SameLine(text, last_text)
           THEN /\ current_line' = Append(current_line, gi + 1)
                /\ UNCHANGED lines
           ELSE /\ lines' = Append(lines, SortByX(sorted_texts, current_line))
                /\ current_line' = <<gi + 1>>
    /\ gi' = gi + 1
    /\ UNCHANGED <<sorted_texts, asm_pc, ti, tables, asm_ret>>
    /\ UNCHANGED <<necVars, exVars, topoVars, imgVars, scaleVars, tkVars>>

\* _group_into_lines: the last line is closed; _detect_tables starts
GroupFinish ==
    /\ asm_pc = "group"
    /\ gi = Len(sorted_texts)
    /\ lines' = Append(lines, SortByX(sorted_texts, current_line))
    /\ current_line' = << >>
    /\ asm_pc' = "tables"
    /\ ti' = 0
    /\ UNCHANGED <<sorted_texts, gi, tables, asm_ret>>
    /\ UNCHANGED <<necVars, exVars, topoVars, imgVars, scaleVars, tkVars>>

\* _detect_tables: one iteration of `while i < len(lines)`
DetectTablesStep ==
    /\ asm_pc = "tables"
    /\ ti < Len(lines)
    /\ LET table_rows == ExtractTableRows(sorted_texts, lines, ti) IN
       IF Len(table_rows) >= 3
       THEN /\ tables' = Append(tables, TableBlocks(sorted_texts, table_rows))
            /\ ti' = ti + Len(table_rows)
       ELSE /\ ti' = ti + 1
            /\ UNCHANGED tables
    /\ UNCHANGED <<sorted_texts, asm_pc, gi, current_line, lines,
                   asm_ret>>
    /\ UNCHANGED <<necVars, exVars, topoVars, imgVars, scaleVars, tkVars>>

\* _group_lines_into_blocks (a block for every line: the table lines are not
\* skipped), then the table rows are added and the list is returned
AssembleReturn ==
    /\ asm_pc = "tables"
    /\ ti >= Len(lines)
    /\ asm_ret' = Some([k \in 1..Len(lines) |->
                          MergeLineIntoBlock(sorted_texts, lines[k])]
                       \o Flatten(tables))
    /\ asm_pc' = "done"
    /\ UNCHANGED <<sorted_texts, gi, current_line, lines, ti, tables>>
    /\ UNCHANGED <<necVars, exVars, topoVars, imgVars, scaleVars, tkVars>>

\* The caller has the list; the assembler takes the next call.
AssembleRestart ==
    /\ asm_pc = "done"
    /\ sorted_texts' = << >>
    /\ asm_pc' = "idle"
    /\ gi' = 0
    /\ current_line' = << >>
    /\ lines' = << >>
    /\ ti' = 0
    /\ tables' = << >>
    /\ asm_ret' = None
    /\ UNCHANGED <<necVars, exVars, topoVars, imgVars, scaleVars, tkVars>>

InitAssemble ==
    /\ NecIdle /\ ExIdle /\ AsmIdle /\ TopoIdle /\ ImgIdle
    /\ ScaleIdle /\ CircuitIdle
NextAssemble ==
    \/ AssembleCall
    \/ GroupStep
    \/ GroupFinish
    \/ DetectTablesStep
    \/ AssembleReturn
    \/ AssembleRestart
SpecAssemble == InitAssemble /\ [][NextAssemble]_vars

(***************************************************************************)
(*      assemble_text_blocks on long schedules (more than 20 lines)        *)
(***************************************************************************)
\* Longest schedule tried, in lines.
MaxLines == 43
ScheduleLengths == {3, 20, 21, 22, 41, MaxLines}
\* The line (counted from 1) set 50 pixels to the right, if any.
ScheduleShifts == {0, 5, 21, 22}
\* A schedule of n one-fragment lines, 20 pixels apart, left edges at 0
\* except the shifted line's.
Schedule(n, shifted) ==
    [k \in 1..n |->
        ExtractedText(<<"A">>, IF k = shifted THEN 50 ELSE 0, 20 * (k - 1),
                      10, 10, 90)]

\* assemble_text_blocks is called with a schedule
AssembleSchedule ==
    /\ asm_pc = "idle"
    /\ \E n \in ScheduleLengths, shifted \in ScheduleShifts :
        sorted_texts' = SortByYX(Schedule(n, shifted))
    /\ current_line' = <<1>>
    /\ gi' = 1
    /\ asm_pc' = "group"
    /\ UNCHANGED <<lines, ti, tables, asm_ret>>
    /\ UNCHANGED <<necVars, exVars, topoVars, imgVars, scaleVars, tkVars>>

InitSchedule ==
    /\ NecIdle /\ ExIdle /\ AsmIdle /\ TopoIdle /\ ImgIdle
    /\ ScaleIdle /\ CircuitIdle
NextSchedule ==
    \/ AssembleSchedule
    \/ GroupStep
    \/ GroupFinish
    \/ DetectTablesStep
    \/ AssembleReturn
    \/ AssembleRestart
SpecSchedule == InitSchedule /\ [][NextSchedule]_vars

(***************************************************************************)
(*                          DrawingPreprocessor                            *)
(* What OpenCV finds in the image is an input: the bounding rectangles of  *)
(* the contours and the Hough segments.  Indices stored in fields count    *)
(* from 0 as in the code.  A ConnectionLine's length and angle, derived    *)
(* from its endpoints and not read again, are left out.  A distance is     *)
(* kept exactly, as its square <<numerator, denominator>>.                 *)
(***************************************************************************)
\* Contours, Hough segments and text contours found per run.
MaxContours == 3
MaxSegments == 2
MaxTextContours == 2

\* dataclass EquipmentBox
EquipmentBox(x, y, w, h) ==
    [x |-> x, y |-> y, width |-> w, height |-> h,
     center_x |-> x + w \div 2, center_y |-> y + h \div 2, area |-> w * h,
     has_text |-> FALSE]
\* dataclass ConnectionLine
ConnectionLine(x1, y1, x2, y2) ==
    [x1 |-> x1, y1 |-> y1, x2 |-> x2, y2 |-> y2,
     source_box |-> None, dest_box |-> None, text_region |-> None]
\* dataclass TextRegion
TextRegion(x, y, w, h) ==
    [x |-> x, y |-> y, width |-> w, height |-> h,
     near_line |-> None, near_box |-> None]

\* The rectangles <<x, y, w, h>> cv2.boundingRect may give for the drawing's
\* contours: a large box, two smaller ones of equal area (the second one
\* within reach of the large one), one of area 5000 and one of aspect 5.
BoxContours ==
    {<<0, 0, 200, 100>>, <<300, 200, 100, 100>>, <<0, 130, 100, 100>>,
     <<300, 300, 100, 50>>, <<0, 250, 250, 50>>}
\* The segments <<x1, y1, x2, y2>> cv2.HoughLinesP may give: two feeders
\* into the second box, a horizontal border, a short diagonal.
Segments ==
    {<<210, 110, 290, 190>>, <<110, 180, 290, 240>>, <<0, 50, 200, 50>>,
     <<210, 110, 250, 150>>}
\* The rectangles of the text contours: centred on the first feeder, 30 and
\* 29 from its start, between the ends of the two feeders, and one of
\* aspect 1.5.
TextContours ==
    {<<230, 140, 40, 20>>, <<160, 100, 40, 20>>, <<161, 100, 40, 20>>,
     <<270, 205, 40, 20>>, <<230, 140, 30, 20>>}

\* A plausible slip: the size bounds inclusive.
IsEquipmentBoxInclusive(c, min_size, max_size) ==
    LET w == c[3]
        h == c[4]
    IN  /\ min_size <= w * h /\ w * h <= max_size
        /\ h > 0
        /\ h < 5 * w /\ w < 5 * h

\* detect_equipment_boxes: the size and aspect filter
IsEquipmentBox(c, min_size, max_size) ==
    LET w == c[3]
        h == c[4]
    IN  /\ min_size < w * h /\ w * h < max_size
        /\ h > 0
        /\ h < 5 * w /\ w < 5 * h

\* boxes.sort(key=lambda b: b.area, reverse=True): stable
RECURSIVE InsertByArea(_, _)
InsertByArea(sorted, b) ==
    IF sorted = << >> \/ Last(sorted).area >= b.area
    THEN Append(sorted, b)
    ELSE Append(InsertByArea(Front(sorted), b), Last(sorted))
RECURSIVE SortByArea(_)
SortByArea(seq) ==
    IF seq = << >> THEN << >>
    ELSE InsertByArea(SortByArea(Front(seq)), Last(seq))

\* detect_equipment_boxes: the loop over the contours
RECURSIVE FilterBoxes(_, _, _)
FilterBoxes(contours, min_size, max_size) ==
    IF contours = << >> THEN << >>
    ELSE LET c    == Last(contours)
             rest == FilterBoxes(Front(contours), min_size, max_size)
         IN  IF IsEquipmentBox(c, min_size, max_size)
             THEN Append(rest, EquipmentBox(c[1], c[2], c[3], c[4]))
             ELSE rest

\* A plausible slip: the angle test waived for a segment twice min_length.
IsConnectionLineUnlessLong(sg, min_length) ==
    LET dx == sg[3] - sg[1]
        dy == sg[4] - sg[2]
    IN  /\ dx * dx + dy * dy >= min_length * min_length
        /\ \/ dx * dx + dy * dy >= 4 * min_length * min_length
           \/ /\ ~(80 * Abs(dx) < 7 * Abs(dy))
              /\ ~(80 * Abs(dy) < 7 * Abs(dx))

\* A plausible slip: the angle test left out.
IsConnectionLineAnyAngle(sg, min_length) ==
    LET dx == sg[3] - sg[1]
        dy == sg[4] - sg[2]
    IN  dx * dx + dy * dy >= min_length * min_length

\* detect_connection_lines: length >= min_length, and the angle not within
\* 5 degrees of an axis.  tan(5 deg) < 7/80, and no ratio of integers with
\* a denominator up to 1102 lies between the two.
IsConnectionLine(sg, min_length) ==
    LET dx == sg[3] - sg[1]
        dy == sg[4] - sg[2]
    IN  /\ dx * dx + dy * dy >= min_length * min_length
        /\ ~(80 * Abs(dx) < 7 * Abs(dy))
        /\ ~(80 * Abs(dy) < 7 * Abs(dx))

\* detect_connection_lines: the loop over the segments
RECURSIVE FilterLines(_, _)
FilterLines(segs, min_length) ==
    IF segs = << >> THEN << >>
    ELSE LET sg   == Last(segs)
             rest == FilterLines(Front(segs), min_length)
         IN  IF IsConnectionLine(sg, min_length)
             THEN Append(rest, ConnectionLine(sg[1], sg[2], sg[3], sg[4]))
             ELSE rest

\* detect_text_regions: aspect_ratio > 1.5 and 100 < w * h < 10000
IsTextRegion(c) ==
    LET w == c[3]
        h == c[4]
    IN  h > 0 /\ 2 * w > 3 * h /\ 100 < w * h /\ w * h < 10000

\* detect_text_regions: the loop over the contours
RECURSIVE FilterTextRegions(_)
FilterTextRegions(contours) ==
    IF contours = << >> THEN << >>
    ELSE LET c    == Last(contours)
             rest == FilterTextRegions(Front(contours))
         IN  IF IsTextRegion(c)
             THEN Append(rest, TextRegion(c[1], c[2], c[3], c[4]))
             ELSE rest

RECURSIVE GCD(_, _)
GCD(a, b) == IF b = 0 THEN a ELSE GCD(b, a % b)

\* _point_to_line_distance, squared: t is clamped to [0, 1]; inside the
\* segment the distance to the projection is |cross| / length, reduced by
\* the common factor of dx and dy
PointToLineDistance(px, py, x1, y1, x2, y2) ==
    LET dx   == x2 - x1
        dy   == y2 - y1
        ax   == px - x1
        ay   == py - y1
        line_length_squared == dx * dx + dy * dy
        dot  == ax * dx + ay * dy
    IN  IF line_length_squared = 0 \/ dot <= 0
        THEN <<ax * ax + ay * ay, 1>>
        ELSE IF dot >= line_length_squared
        THEN <<(px - x2) * (px - x2) + (py - y2) * (py - y2), 1>>
        ELSE LET g == GCD(Abs(dx), Abs(dy))
                 u == dx \div g
                 v == dy \div g
                 c == ax * v - ay * u
             IN  <<c * c, u * u + v * v>>

\* distance < proximity_threshold, and distance < min_distance (None is inf)
DistBelow(d, threshold) == d[1] < threshold * threshold * d[2]
DistLess(d, min_distance) ==
    min_distance = None \/ d[1] * min_distance[1][2] < min_distance[1][1] * d[2]

\* A plausible slip: any line within the threshold replaces the one found.
NearestLineLast(cls, px, py, idx, min_distance, nearest_line_idx, threshold) ==
    LET near == {k \in 1..Len(cls) :
                   DistBelow(PointToLineDistance(px, py, cls[k].x1, cls[k].y1,
                                                 cls[k].x2, cls[k].y2),
                             threshold)}
    IN  IF near = {} THEN None
        ELSE Some((CHOOSE k \in near : \A m \in near : m <= k) - 1)

\* associate_text_with_lines: the inner loop from line idx (0-based) on
RECURSIVE NearestLine(_, _, _, _, _, _, _)
NearestLine(cls, px, py, idx, min_distance, nearest_line_idx, threshold) ==
    IF idx >= Len(cls) THEN nearest_line_idx
    ELSE LET line     == cls[idx + 1]
             distance == PointToLineDistance(px, py, line.x1, line.y1,
                                             line.x2, line.y2)
         IN  IF DistBelow(distance, threshold)
                /\ DistLess(distance, min_distance)
             THEN NearestLine(cls, px, py, idx + 1, Some(distance),
                              Some(idx), threshold)
             ELSE NearestLine(cls, px, py, idx + 1, min_distance,
                              nearest_line_idx, threshold)

\* _point_near_box
PointNearBox(px, py, box, threshold) ==
    \/ /\ box.x <= px /\ px <= box.x + box.width
       /\ box.y <= py /\ py <= box.y + box.height
    \/ /\ box.x - threshold <= px /\ px <= box.x + box.width + threshold
       /\ box.y - threshold <= py /\ py <= box.y + box.height + threshold

\* A plausible slip: no `is None` test, so the last box in reach wins.
LinkBoxesLastWins(line, boxes, box_idx, threshold) ==
    LET src == {i \in 0..(Len(boxes) - 1) :
                  PointNearBox(line.x1, line.y1, boxes[i + 1], threshold)}
        dst == {i \in 0..(Len(boxes) - 1) :
                  PointNearBox(line.x2, line.y2, boxes[i + 1], threshold)}
        Top(S) == CHOOSE i \in S : \A j \in S : j <= i
    IN  [line EXCEPT
           !.source_box = IF src = {} THEN None ELSE Some(Top(src)),
           !.dest_box   = IF dst = {} THEN None ELSE Some(Top(dst))]

\* associate_lines_with_boxes: the inner loop from box box_idx (0-based) on
RECURSIVE LinkBoxes(_, _, _, _)
LinkBoxes(line, boxes, box_idx, threshold) ==
    IF box_idx >= Len(boxes) THEN line
    ELSE LET box == boxes[box_idx + 1]
             l1  == IF PointNearBox(line.x1, line.y1, box, threshold)
                       /\ line.source_box = None
                    THEN [line EXCEPT !.source_box = Some(box_idx)]
                    ELSE line
             l2  == IF PointNearBox(line.x2, line.y2, box, threshold)
                       /\ l1.dest_box = None
                    THEN [l1 EXCEPT !.dest_box = Some(box_idx)]
                    ELSE l1
         IN  LinkBoxes(l2, boxes, box_idx + 1, threshold)

\* analyze_drawing_structure: box_connections[i], i counted from 0
box_connections(cls, i) ==
    Cardinality({k \in 1..Len(cls) : cls[k].source_box = Some(i)})
    + Cardinality({k \in 1..Len(cls) : cls[k].dest_box = Some(i)})

\* A plausible slip: among equals the box nearer the top of the sheet first.
KeyGreaterTopOfSheet(boxes, cls, i, j) ==
    LET ci == box_connections(cls, i)
        cj == box_connections(cls, j)
    IN  \/ ci > cj
        \/ ci = cj /\ boxes[i + 1].area > boxes[j + 1].area
        \/ /\ ci = cj /\ boxes[i + 1].area = boxes[j + 1].area
           /\ boxes[i + 1].y < boxes[j + 1].y

\* A plausible slip: among equals the later box replaces the earlier one.
KeyNotLess(boxes, cls, i, j) ==
    LET ci == box_connections(cls, i)
        cj == box_connections(cls, j)
    IN  ci > cj \/ (ci = cj /\ boxes[i + 1].area >= boxes[j + 1].area)

\* key=lambda i: (box_connections[i], boxes[i].area): key(i) > key(j)
KeyGreater(boxes, cls, i, j) ==
    LET ci == box_connections(cls, i)
        cj == box_connections(cls, j)
    IN  ci > cj \/ (ci = cj /\ boxes[i + 1].area > boxes[j + 1].area)

\* max(range(len(boxes)), key=...): the first of the greatest
RECURSIVE MaxByKey(_, _, _, _)
MaxByKey(boxes, cls, i, best) ==
    IF i >= Len(boxes) THEN best
    ELSE MaxByKey(boxes, cls, i + 1,
                  IF KeyGreater(boxes, cls, i, best) THEN i ELSE best)

\* A plausible slip: the largest box, whatever is connected.
MainEquipmentIdxLargest(boxes, cls) ==
    IF boxes # << >> THEN Some(0) ELSE None

\* A plausible slip: the index starts at 0 without the "if boxes" test.
MainEquipmentIdxAlwaysZero(boxes, cls) ==
    IF boxes # << >> /\ cls # << >>
    THEN Some(MaxByKey(boxes, cls, 1, 0))
    ELSE Some(0)

\* analyze_drawing_structure: topology['main_equipment_idx']
MainEquipmentIdx(boxes, cls) ==
    IF boxes # << >> /\ cls # << >>
    THEN Some(MaxByKey(boxes, cls, 1, 0))
    ELSE IF boxes # << >> THEN Some(0) ELSE None

\* analyze_drawing_structure starts: detect_equipment_boxes() with its
\* defaults filters the contours and sorts the boxes largest first.
DetectEquipmentBoxes ==
    /\ topo_pc = "idle"
    /\ \E contours \in SeqsUpTo(BoxContours, MaxContours) :
        equipment_boxes' = SortByArea(FilterBoxes(contours, 5000, 100000))
    /\ topo_pc' = "lines"
    /\ UNCHANGED <<connection_lines, text_regions, ri, li, topology>>
    /\ UNCHANGED <<necVars, exVars, asmVars, imgVars, scaleVars, tkVars>>

\* detect_connection_lines() with its default min_length
DetectConnectionLines ==
    /\ topo_pc = "lines"
    /\ \E segs \in SeqsUpTo(Segments, MaxSegments) :
        connection_lines' = FilterLines(segs, 100)
    /\ topo_pc' = "text"
    /\ UNCHANGED <<equipment_boxes, text_regions, ri, li, topology>>
    /\ UNCHANGED <<necVars, exVars, asmVars, imgVars, scaleVars, tkVars>>

\* detect_text_regions()
DetectTextRegions ==
    /\ topo_pc = "text"
    /\ \E contours \in SeqsUpTo(TextContours, MaxTextContours) :
        text_regions' = FilterTextRegions(contours)
    /\ topo_pc' = "associate"
    /\ ri' = 0
    /\ li' = 0
    /\ UNCHANGED <<equipment_boxes, connection_lines, topology>>
    /\ UNCHANGED <<necVars, exVars, asmVars, imgVars, scaleVars, tkVars>>

\* associate_text_with_lines(): one iteration of the loop over text_regions
AssociateTextWithLines ==
    /\ topo_pc = "associate"
    /\ ri < Len(text_regions)
    /\ LET text_region == text_regions[ri + 1]
           text_center_x == text_region.x + text_region.width \div 2
           text_center_y == text_region.y + text_region.height \div 2
           nearest_line_idx ==
               NearestLine(connection_lines, text_center_x, text_center_y,
                           0, None, None, 30)
       IN  IF nearest_line_idx # None
           THEN /\ text_regions' =
                     [text_regions EXCEPT ![ri + 1].near_line =
                                              nearest_line_idx]
                /\ connection_lines' =
                     [connection_lines EXCEPT
                        ![nearest_line_idx[1] + 1].text_region =
                            Some(<<text_region.x, text_region.y,
                                   text_region.width, text_region.height>>)]
           ELSE UNCHANGED <<text_regions, connection_lines>>
    /\ ri' = ri + 1
    /\ UNCHANGED <<topo_pc, equipment_boxes, li, topology>>
    /\ UNCHANGED <<necVars, exVars, asmVars, imgVars, scaleVars, tkVars>>

\* associate_lines_with_boxes(): one iteration of the loop over
\* connection_lines
AssociateLinesWithBoxes ==
    /\ topo_pc = "associate"
    /\ ri = Len(text_regions)
    /\ li < Len(connection_lines)
    /\ connection_lines' =
         [connection_lines EXCEPT
            ![li + 1] = LinkBoxes(connection_lines[li + 1], equipment_boxes,
                                  0, 20)]
    /\ li' = li + 1
    /\ UNCHANGED <<topo_pc, equipment_boxes, text_regions, ri, topology>>
    /\ UNCHANGED <<necVars, exVars, asmVars, imgVars, scaleVars, tkVars>>

\* analyze_drawing_structure builds the topology and returns it; of the dict
\* the model keeps main_equipment_idx (the lists are the three above)
BuildTopology ==
    /\ topo_pc = "associate"
    /\ ri = Len(text_regions)
    /\ li = Len(connection_lines)
    /\ topology' = Some([main_equipment_idx |->
                           MainEquipmentIdx(equipment_boxes,
                                            connection_lines)])
    /\ topo_pc' = "done"
    /\ UNCHANGED <<equipment_boxes, connection_lines, text_regions, ri, li>>
    /\ UNCHANGED <<necVars, exVars, asmVars, imgVars, scaleVars, tkVars>>

\* DrawingPreprocessor.__init__: the next drawing gets a new preprocessor
NewPreprocessor ==
    /\ topo_pc = "done"
    /\ topo_pc' = "idle"
    /\ equipment_boxes' = << >>
    /\ connection_lines' = << >>
    /\ text_regions' = << >>
    /\ ri' = 0
    /\ li' = 0
    /\ topology' = None
    /\ UNCHANGED <<necVars, exVars, asmVars, imgVars, scaleVars, tkVars>>

InitTopo ==
    /\ NecIdle /\ ExIdle /\ AsmIdle /\ TopoIdle /\ ImgIdle
    /\ ScaleIdle /\ CircuitIdle
NextTopo ==
    \/ DetectEquipmentBoxes
    \/ DetectConnectionLines
    \/ DetectTextRegions
    \/ AssociateTextWithLines
    \/ AssociateLinesWithBoxes
    \/ BuildTopology
    \/ NewPreprocessor
SpecTopo == InitTopo /\ [][NextTopo]_vars

(***************************************************************************)
(* The public methods of one DrawingPreprocessor called directly, in any   *)
(* order and with arguments of the caller's choice, on a given image.      *)
(***************************************************************************)
\* Contour rectangles and Hough segments in the image.
MaxImageContours == 2
MaxImageSegments == 1

\* The segments of these images: those above, and a feeder of length 250
\* that starts 20 below the large box and 10 above the third one.
ImageSegments == Segments \cup {<<50, 120, 290, 190>>}
Images ==
    {[contours |-> c, segments |-> sg] :
        c \in SeqsUpTo(BoxContours, MaxImageContours),
        sg \in SeqsUpTo(ImageSegments, MaxImageSegments)}
\* The arguments tried: the defaults and one other choice.
SizeLimits == {<<5000, 100000>>, <<10000, 20000>>}
MinLengths == {100, 250}
BoxThresholds == {20, 10}

\* detect_equipment_boxes(min_size, max_size)
CallDetectEquipmentBoxes ==
    /\ topo_pc = "direct"
    /\ \E lim \in SizeLimits :
        /\ equipment_boxes' =
             SortByArea(FilterBoxes(image.contours, lim[1], lim[2]))
        /\ pre_call' = [op |-> "detect_equipment_boxes",
                        min_size |-> lim[1], max_size |-> lim[2]]
    /\ UNCHANGED <<topo_pc, connection_lines, text_regions, ri, li, topology,
                   image>>
    /\ UNCHANGED <<necVars, exVars, asmVars, scaleVars, tkVars>>

\* detect_connection_lines(min_length)
CallDetectConnectionLines ==
    /\ topo_pc = "direct"
    /\ \E min_length \in MinLengths :
        /\ connection_lines' = FilterLines(image.segments, min_length)
        /\ pre_call' = [op |-> "detect_connection_lines",
                        min_length |-> min_length]
    /\ UNCHANGED <<topo_pc, equipment_boxes, text_regions, ri, li, topology,
                   image>>
    /\ UNCHANGED <<necVars, exVars, asmVars, scaleVars, tkVars>>

\* associate_lines_with_boxes(proximity_threshold): the whole loop
CallAssociateLinesWithBoxes ==
    /\ topo_pc = "direct"
    /\ \E proximity_threshold \in BoxThresholds :
        /\ connection_lines' =
             [k \in 1..Len(connection_lines) |->
                LinkBoxes(connection_lines[k], equipment_boxes, 0,
                          proximity_threshold)]
        /\ pre_call' =
             [op |-> "associate_lines_with_boxes",
              proximity_threshold |-> proximity_threshold,
              fresh |-> \A k \in 1..Len(connection_lines) :
                           /\ connection_lines[k].source_box = None
                           /\ connection_lines[k].dest_box = None]
    /\ UNCHANGED <<topo_pc, equipment_boxes, text_regions, ri, li, topology,
                   image>>
    /\ UNCHANGED <<necVars, exVars, asmVars, scaleVars, tkVars>>

InitCalls ==
    /\ NecIdle /\ ExIdle /\ AsmIdle /\ ScaleIdle /\ CircuitIdle
    /\ topo_pc = "direct"
    /\ equipment_boxes = << >>
    /\ connection_lines = << >>
    /\ text_regions = << >>
    /\ ri = 0
    /\ li = 0
    /\ topology = None
    /\ image \in Images
    /\ pre_call = [op |-> "none"]
NextCalls ==
    \/ CallDetectEquipmentBoxes
    \/ CallDetectConnectionLines
    \/ CallAssociateLinesWithBoxes
SpecCalls == InitCalls /\ [][NextCalls]_vars

(***************************************************************************)
(*           DrawingScale (src/Railway-Deployment/scale_calibration.py)    *)
(* A float is the pair <<n, d>> of the exact quotient n / d.  NumPy's      *)
(* float64 division does not raise on a zero divisor: it gives inf (d = 0, *)
(* n > 0) or nan (n = 0, d = 0), which the pairs keep as they are.         *)
(***************************************************************************)
\* np.sqrt on the sums of squares that occur, all of them perfect squares.
Sqrt(n) == CHOOSE r \in 0..n : r * r = n
PixelDistance(x1, y1, x2, y2) ==
    Sqrt((x2 - x1) * (x2 - x1) + (y2 - y1) * (y2 - y1))
\* The reference lines and measured lines: lengths 50, 100 and 0 pixels.
ScaleLines == {<<0, 0, 30, 40>>, <<0, 0, 0, 100>>, <<10, 10, 10, 10>>}
KnownDistances == {0, 10, 25}
Units == {"feet", "meters", "inches"}

\* calibrate: self.pixels_per_foot after the if/elif on the unit
ScaleAfter(old, pixel_distance, known_distance, unit) ==
    IF unit = "feet" THEN Some(<<pixel_distance, known_distance>>)
    ELSE IF unit = "meters"
         THEN Some(<<pixel_distance * 100000, known_distance * 328084>>)
         ELSE old
\* calibrate(x1, y1, x2, y2, known_distance, unit)
Calibrate ==
    \E l \in ScaleLines, known_distance \in KnownDistances, unit \in Units :
        LET pixel_distance == PixelDistance(l[1], l[2], l[3], l[4])
            new == ScaleAfter(pixels_per_foot, pixel_distance,
                              known_distance, unit)
        IN  /\ pixels_per_foot' = new
            /\ calibrated' = TRUE
            \* the print formats self.pixels_per_foot with :.2f
            /\ scale_call' = [op |-> "calibrate", line |-> l,
                              known_distance |-> known_distance,
                              unit |-> unit,
                              ret |-> IF new = None THEN Raise("TypeError")
                                      ELSE None]
            /\ UNCHANGED <<necVars, exVars, asmVars, topoVars, imgVars, tkVars>>

\* measure_distance(x1, y1, x2, y2): what it returns or raises
measure_distance(l) ==
    IF ~calibrated THEN None
    ELSE LET pixel_distance == PixelDistance(l[1], l[2], l[3], l[4])
         IN  IF pixels_per_foot = None THEN Raise("TypeError")
             ELSE Some(<<pixel_distance * pixels_per_foot[1][2],
                         pixels_per_foot[1][1]>>)
MeasureDistance ==
    \E l \in ScaleLines :
        /\ scale_call' = [op |-> "measure_distance", line |-> l,
                          ret |-> measure_distance(l)]
        /\ UNCHANGED <<pixels_per_foot, calibrated>>
        /\ UNCHANGED <<necVars, exVars, asmVars, topoVars, imgVars, tkVars>>

InitScale ==
    /\ NecIdle /\ ExIdle /\ AsmIdle /\ TopoIdle /\ ImgIdle
    /\ ScaleIdle /\ CircuitIdle
NextScale == Calibrate \/ MeasureDistance
SpecScale == InitScale /\ [][NextScale]_vars

(***************************************************************************)
(*        validate_electrical_circuit (src/trade_knowledge.py)             *)
(* One circuit is reviewed by the repository's two wire-versus-breaker     *)
(* checks: NECValidator.check_wire_ampacity and this function.             *)
(***************************************************************************)
\* NEC Table 310.16, 75 C column
ELECTRICAL_WIRE_AMPACITY ==
    "14" :> 20 @@ "12" :> 25 @@ "10" :> 35 @@ "8" :> 50 @@ "6" :> 65 @@
    "4" :> 85 @@ "3" :> 100 @@ "2" :> 115 @@ "1" :> 130 @@ "1/0" :> 150 @@
    "2/0" :> 175 @@ "3/0" :> 200 @@ "4/0" :> 230 @@ "250" :> 255 @@
    "300" :> 285 @@ "350" :> 310 @@ "400" :> 335 @@ "500" :> 380 @@
    "600" :> 420 @@ "750" :> 475 @@ "1000" :> 545
\* Minimum wire size for a breaker
ELECTRICAL_BREAKER_WIRE_RULES ==
    15 :> "14" @@ 20 :> "12" @@ 25 :> "10" @@ 30 :> "10" @@ 40 :> "8" @@
    50 :> "6" @@ 60 :> "6" @@ 70 :> "4" @@ 80 :> "4" @@ 90 :> "3" @@
    100 :> "3" @@ 110 :> "2" @@ 125 :> "1" @@ 150 :> "1/0" @@ 175 :> "2/0" @@
    200 :> "3/0" @@ 225 :> "4/0" @@ 250 :> "250" @@ 300 :> "300" @@
    350 :> "350" @@ 400 :> "400"
\* compare_wire_size: wire_order
wire_order ==
    <<"14", "12", "10", "8", "6", "4", "3", "2", "1", "1/0", "2/0", "3/0",
      "4/0", "250", "300", "350", "400", "500", "600", "750", "1000">>
IndexIn(order, size) == CHOOSE k \in 1..Len(order) : order[k] = size
\* compare_wire_size: -1, 0 or 1, or None for a size that is not in
\* wire_order
compare_wire_size(size1, size2) ==
    IF \A k \in 1..Len(wire_order) : wire_order[k] # size1 THEN None
    ELSE IF \A k \in 1..Len(wire_order) : wire_order[k] # size2 THEN None
    ELSE LET idx1 == IndexIn(wire_order, size1)
             idx2 == IndexIn(wire_order, size2)
         IN  IF idx1 < idx2 THEN Some(-1)
             ELSE IF idx1 > idx2 THEN Some(1)
             ELSE Some(0)

\* validate_electrical_circuit: the returned dict (errors and warnings by
\* their leading code reference), or the TypeError of `None < 0`
validate_electrical_circuit(breaker_size, wire_size, wire_count, conduit_size, circuit_length) ==
    LET has_amp  == wire_size \in DOMAIN ELECTRICAL_WIRE_AMPACITY
        e1       == IF has_amp
                       /\ ELECTRICAL_WIRE_AMPACITY[wire_size] # 0
                       /\ ELECTRICAL_WIRE_AMPACITY[wire_size] < breaker_size
                    THEN <<"NEC 240.4">> ELSE << >>
        has_rule == breaker_size \in DOMAIN ELECTRICAL_BREAKER_WIRE_RULES
        cmp      == IF has_rule
                    THEN compare_wire_size(
                           wire_size,
                           ELECTRICAL_BREAKER_WIRE_RULES[breaker_size])
                    ELSE None
        e2       == IF has_rule /\ cmp # None /\ cmp[1] < 0
                    THEN <<"NEC 310.16">> ELSE << >>
        warnings == IF circuit_length > 100 /\ wire_size \in {"14", "12", "10"}
                    THEN <<"Long circuit">> ELSE << >>
    IN  IF has_rule /\ cmp = None THEN Raise("TypeError")
        ELSE Some([valid |-> (e1 \o e2 = << >>), errors |-> e1 \o e2,
                   warnings |-> warnings])

\* The circuits under review: the gauges of either table and one of neither,
\* every breaker rating, a short and a long run.
CircuitWireSizes == DOMAIN ELECTRICAL_WIRE_AMPACITY \cup {"900"}
CircuitLengths == {100, 150}
Circuits ==
    {[breaker_size |-> b, wire_size |-> w, wire_count |-> 3,
      conduit_size |-> "3/4", circuit_length |-> l] :
        b \in BreakerAmps, w \in CircuitWireSizes, l \in CircuitLengths}

\* NECValidator.check_wire_ampacity on the circuit under review
CheckCircuitWire ==
    /\ circuit # None
    /\ nec_call.op = "none"
    /\ nec_call' = [op |-> "check_wire_ampacity",
                    wire_size |-> circuit[1].wire_size,
                    breaker_amps |-> circuit[1].breaker_size]
    /\ Outcome(check_wire_ampacity(circuit[1].wire_size,
                                   circuit[1].breaker_size))
    /\ UNCHANGED selfVars
    /\ UNCHANGED <<exVars, asmVars, topoVars, imgVars, scaleVars, tkVars>>

\* validate_electrical_circuit on the circuit under review
ValidateElectricalCircuit ==
    /\ circuit # None
    /\ circuit_ret' =
          validate_electrical_circuit(circuit[1].breaker_size,
                                      circuit[1].wire_size,
                                      circuit[1].wire_count,
                                      circuit[1].conduit_size,
                                      circuit[1].circuit_length)
    /\ UNCHANGED circuit
    /\ UNCHANGED <<necVars, exVars, asmVars, topoVars, imgVars, scaleVars>>

InitCircuit ==
    /\ NecIdle /\ ExIdle /\ AsmIdle /\ TopoIdle /\ ImgIdle /\ ScaleIdle
    /\ circuit \in {Some(c) : c \in Circuits}
    /\ circuit_ret = None
NextCircuit ==
    \/ CheckCircuitWire
    \/ NecReturn
    \/ ValidateElectricalCircuit
SpecCircuit == InitCircuit /\ [][NextCircuit]_vars

(***************************************************************************)
(*     The public methods of one DrawingPreprocessor, in any order         *)
(* The caller may call any detector again, with other parameters, after    *)
(* the associations were made; each call runs to its end.                  *)
(***************************************************************************)
\* The drawings of these sessions: up to two boxes, the two feeders into the
\* second box, one label next to the first feeder.
SessionImages ==
    {[contours |-> c, segments |-> sg, texts |-> t] :
        c \in SeqsUpTo({<<0, 0, 200, 100>>, <<300, 200, 100, 100>>}, 2),
        sg \in SeqsUpTo({<<210, 110, 290, 190>>, <<110, 180, 290, 240>>},
                        MaxImageSegments),
        t \in SeqsUpTo({<<230, 140, 40, 20>>}, 1)}
TextThresholds == {30}

RECURSIVE AssociateText(_, _, _, _)
\* associate_text_with_lines: the loop over the regions from region k
\* (0-based) on; gives the regions and the lines as the loop leaves them.
AssociateText(regions, cls, k, threshold) ==
    IF k >= Len(regions) THEN [regions |-> regions, lines |-> cls]
    ELSE LET text_region == regions[k + 1]
             text_center_x == text_region.x + text_region.width \div 2
             text_center_y == text_region.y + text_region.height \div 2
             nearest_line_idx ==
                 NearestLine(cls, text_center_x, text_center_y, 0, None,
                             None, threshold)
         IN  IF nearest_line_idx # None
             THEN AssociateText(
                    [regions EXCEPT ![k + 1].near_line = nearest_line_idx],
                    [cls EXCEPT ![nearest_line_idx[1] + 1].text_region =
                        Some(<<text_region.x, text_region.y,
                               text_region.width, text_region.height>>)],
                    k + 1, threshold)
             ELSE AssociateText(regions, cls, k + 1, threshold)

\* detect_text_regions()
CallDetectTextRegions ==
    /\ topo_pc = "direct"
    /\ text_regions' = FilterTextRegions(image.texts)
    /\ pre_call' = [op |-> "detect_text_regions"]
    /\ UNCHANGED <<topo_pc, equipment_boxes, connection_lines, ri, li,
                   topology, image>>
    /\ UNCHANGED <<necVars, exVars, asmVars, scaleVars, tkVars>>

\* associate_text_with_lines(proximity_threshold): the whole loop
CallAssociateTextWithLines ==
    /\ topo_pc = "direct"
    /\ \E proximity_threshold \in TextThresholds :
        LET after == AssociateText(text_regions, connection_lines, 0,
                                   proximity_threshold)
        IN  /\ text_regions' = after.regions
            /\ connection_lines' = after.lines
            /\ pre_call' = [op |-> "associate_text_with_lines",
                            proximity_threshold |-> proximity_threshold]
    /\ UNCHANGED <<topo_pc, equipment_boxes, ri, li, topology, image>>
    /\ UNCHANGED <<necVars, exVars, asmVars, scaleVars, tkVars>>

\* analyze_drawing_structure(): the three detectors with their defaults, the
\* two associations, the topology
CallAnalyzeDrawingStructure ==
    /\ topo_pc = "direct"
    /\ LET boxes == SortByArea(FilterBoxes(image.contours, 5000, 100000))
           after == AssociateText(FilterTextRegions(image.texts),
                                  FilterLines(image.segments, 100), 0, 30)
           cls   == [k \in 1..Len(after.lines) |->
                        LinkBoxes(after.lines[k], boxes, 0, 20)]
       IN  /\ equipment_boxes' = boxes
           /\ text_regions' = after.regions
           /\ connection_lines' = cls
           /\ topology' = Some([main_equipment_idx |->
                                   MainEquipmentIdx(boxes, cls)])
    /\ pre_call' = [op |-> "analyze_drawing_structure"]
    /\ UNCHANGED <<topo_pc, ri, li, image>>
    /\ UNCHANGED <<necVars, exVars, asmVars, scaleVars, tkVars>>

InitAnyOrder ==
    /\ NecIdle /\ ExIdle /\ AsmIdle /\ ScaleIdle /\ CircuitIdle
    /\ topo_pc = "direct"
    /\ equipment_boxes = << >>
    /\ connection_lines = << >>
    /\ text_regions = << >>
    /\ ri = 0
    /\ li = 0
    /\ topology = None
    /\ image \in SessionImages
    /\ pre_call = [op |-> "none"]
NextAnyOrder ==
    \/ CallDetectEquipmentBoxes
    \/ CallDetectConnectionLines
    \/ CallDetectTextRegions
    \/ CallAssociateTextWithLines
    \/ CallAssociateLinesWithBoxes
    \/ CallAnalyzeDrawingStructure
SpecAnyOrder == InitAnyOrder /\ [][NextAnyOrder]_vars

(***************************************************************************)
(*              A session on one NECValidator (src/main.py)                *)
(* The caller makes check_* calls in any order, appends what the location  *)
(* and text checks return to nec.violations, and asks for the summary.     *)
(***************************************************************************)
\* Records the caller keeps in nec.violations.
MaxViolations == 3

\* str.lower() on one character, and on a text
LowerOf == [c \in {Upper[k] : k \in 1..26} |->
                Lower[CHOOSE k \in 1..26 : Upper[k] = c]]
LowerChar(c) == IF c \in DOMAIN LowerOf THEN LowerOf[c] ELSE c
ToLower(s) == [k \in 1..Len(s) |-> LowerChar(s[k])]

\* any(word in text.lower() for word in words)
AnyWordIn(text, words) == \E w \in words : Contains(ToLower(text), w)

\* NECValidator.check_gfci_required
check_gfci_required(location) ==
    IF \E k \in 1..Len(nec_tables.gfci_locations) :
            Contains(ToLower(location), nec_tables.gfci_locations[k])
    THEN Some(CodeViolation("warning", "NEC 210.8", location))
    ELSE None

\* NECValidator.check_afci_required
check_afci_required(location) ==
    IF \E k \in 1..Len(nec_tables.afci_locations) :
            Contains(ToLower(location), nec_tables.afci_locations[k])
    THEN LET article == IF version = "2023" THEN "210.12(A)" ELSE "210.12"
         IN  Some(CodeViolation("warning", <<"NEC ", article>>, location))
    ELSE None

\* NECValidator.check_outdoor_requirements
check_outdoor_requirements(text) ==
    IF AnyWordIn(text, {<<"o", "u", "t", "d", "o", "o", "r">>,
                        <<"e", "x", "t", "e", "r", "i", "o", "r">>,
                        <<"o", "u", "t", "s", "i", "d", "e">>})
    THEN <<CodeViolation("info", "NEC 300.6(A)", "Outdoor"),
           CodeViolation("info", "NEC 300.5", "Outdoor"),
           CodeViolation("warning", "NEC 110.11", "Outdoor")>>
    ELSE << >>

\* NECValidator.check_grounding
check_grounding(text) ==
    (IF AnyWordIn(text, {<<"s", "e", "r", "v", "i", "c", "e">>,
                         <<"m", "e", "t", "e", "r">>,
                         <<"m", "a", "i", "n", " ", "p", "a", "n", "e", "l">>})
     THEN <<CodeViolation("info", "NEC 250.24", "Service entrance")>>
     ELSE << >>)
    \o
    (IF AnyWordIn(text, {<<"p", "a", "n", "e", "l">>,
                         <<"s", "u", "b", "p", "a", "n", "e", "l">>,
                         <<"d", "i", "s", "t", "r", "i", "b", "u", "t",
                           "i", "o", "n">>})
     THEN <<CodeViolation("info", "NEC 250.32", "Subpanel")>>
     ELSE << >>)

\* Number of records of severity sev in a list of violations
CountSeverity(vs, sev) ==
    Cardinality({k \in 1..Len(vs) : vs[k].severity = sev})

\* NECValidator.generate_code_summary
generate_code_summary ==
    [nec_version |-> version,
     total_checks |-> Len(violations),
     critical_violations |-> CountSeverity(violations, "critical"),
     warnings |-> CountSeverity(violations, "warning"),
     informational |-> CountSeverity(violations, "info"),
     violations |-> [k \in 1..Len(violations) |->
                        [severity |-> violations[k].severity,
                         code_ref |-> violations[k].code_ref,
                         location |-> violations[k].location]]]

\* Panel names and drawing texts the caller passes
PanelNames ==
    { <<"K", "i", "t", "c", "h", "e", "n">>,
      <<"b", "e", "d", "r", "o", "o", "m">>,
      <<"o", "f", "f", "i", "c", "e">> }
DrawingTexts ==
    { <<"O", "u", "t", "d", "o", "o", "r", " ", "s", "e", "r", "v", "i",
        "c", "e", " ", "p", "a", "n", "e", "l">>,
      <<"M", "a", "i", "n", " ", "m", "e", "t", "e", "r">>,
      <<"p", "l", "a", "n">> }

CheckOps == {"check_wire_ampacity", "check_voltage_drop",
             "check_conduit_fill", "check_gfci_required",
             "check_afci_required", "check_outdoor_requirements",
             "check_grounding"}

\* The check_* calls of a session
SessionCalls ==
    {[op |-> "check_wire_ampacity", wire_size |-> w, breaker_amps |-> b] :
        w \in {"12", "600"}, b \in {20, 21}}
    \cup
    {[op |-> "check_voltage_drop", wire_size |-> "14", length_feet |-> 100,
      current_amps |-> c, voltage |-> v] : c \in {0, 15}, v \in {0, 120}}
    \cup
    {[op |-> "check_conduit_fill", conduit_size |-> cs, wire_count |-> 2,
      wire_sizes |-> <<"1/0">>] : cs \in {"3/4", "4"}}
    \cup
    {[op |-> o, location |-> l] :
        o \in {"check_gfci_required", "check_afci_required"},
        l \in PanelNames}
    \cup
    {[op |-> o, text |-> t] :
        o \in {"check_outdoor_requirements", "check_grounding"},
        t \in DrawingTexts}

\* What the call c returns (or raises)
CheckResult(c) ==
    CASE c.op = "check_wire_ampacity" ->
            check_wire_ampacity(c.wire_size, c.breaker_amps)
      [] c.op = "check_voltage_drop" ->
            check_voltage_drop(c.wire_size, c.length_feet, c.current_amps,
                               c.voltage)
      [] c.op = "check_conduit_fill" ->
            check_conduit_fill(c.conduit_size, c.wire_count, c.wire_sizes)
      [] c.op = "check_gfci_required" -> check_gfci_required(c.location)
      [] c.op = "check_afci_required" -> check_afci_required(c.location)
      [] c.op = "check_outdoor_requirements" ->
            check_outdoor_requirements(c.text)
      [] c.op = "check_grounding" -> check_grounding(c.text)

\* A plausible slip: the check keeps its finding in self.violations as well
\* as returning it.
CallCheckRecording ==
    /\ nec_call.op = "none"
    /\ \E c \in SessionCalls :
        /\ nec_call' = c
        /\ Outcome(CheckResult(c))
        /\ violations' = (IF IsRaise(CheckResult(c)) THEN violations
                          ELSE violations \o CheckResult(c))
        /\ UNCHANGED <<version, nec_tables>>
    /\ UNCHANGED <<exVars, asmVars, topoVars, imgVars, scaleVars, tkVars>>

\* The caller calls one of the check_* methods.
CallCheck ==
    /\ nec_call.op = "none"
    /\ \E c \in SessionCalls :
        /\ nec_call' = c
        /\ Outcome(CheckResult(c))
        /\ UNCHANGED selfVars
    /\ UNCHANGED <<exVars, asmVars, topoVars, imgVars, scaleVars, tkVars>>

\* main.py: the caller appends what a location or text check returned
\* (nec.violations.extend(...), nec.violations.append(...)).
RecordResult ==
    /\ nec_call.op \in {"check_outdoor_requirements", "check_grounding",
                        "check_gfci_required", "check_afci_required"}
    /\ nec_ret # << >>
    /\ Len(violations) + Len(nec_ret) <= MaxViolations
    /\ violations' = violations \o nec_ret
    /\ nec_call' = [op |-> "none"]
    /\ nec_ret' = None
    /\ nec_exc' = None
    /\ UNCHANGED <<version, nec_tables>>
    /\ UNCHANGED <<exVars, asmVars, topoVars, imgVars, scaleVars, tkVars>>

\* main.py: code_summary = nec.generate_code_summary()
GenerateCodeSummary ==
    /\ nec_call.op = "none"
    /\ nec_call' = [op |-> "generate_code_summary"]
    /\ nec_ret' = Some(generate_code_summary)
    /\ nec_exc' = None
    /\ UNCHANGED selfVars
    /\ UNCHANGED <<exVars, asmVars, topoVars, imgVars, scaleVars, tkVars>>

\* nec = NECValidator(nec_version)
InitValidator ==
    /\ violations = << >>
    /\ nec_call = [op |-> "none"]
    /\ nec_ret = None
    /\ nec_exc = None
    /\ version \in NECVersions
    /\ nec_tables = NecTables
    /\ ExIdle /\ AsmIdle /\ ScaleIdle /\ CircuitIdle /\ TopoIdle /\ ImgIdle
NextValidator ==
    \/ CallCheck
    \/ RecordResult
    \/ GenerateCodeSummary
    \/ NecReturn
SpecValidator == InitValidator /\ [][NextValidator]_vars

(***************************************************************************)
(*        The two components one after the other on one drawing            *)
(* A drawing goes through analyze_drawing_structure and its OCR fragments  *)
(* through assemble_text_blocks, in either order; one runs while the other *)
(* is at rest.                                                             *)
(***************************************************************************)
InitPipeline ==
    /\ NecIdle /\ ExIdle /\ AsmIdle /\ TopoIdle /\ ImgIdle
    /\ ScaleIdle /\ CircuitIdle
NextPipeline ==
    \/ AsmIdle /\ NextTopo
    \/ TopoIdle /\ NextAssemble
SpecPipeline == InitPipeline /\ [][NextPipeline]_vars

\* ---- C2
\* The notation of the claim, read at p: <F> AF <T> AT|AS|AE, the two numbers
\* whole, both A's written, blanks allowed where the code's comment allows
\* them ("225 AF / 110 AT", "225A F/110A T"), an optional slash between.
NotationAt(s, p) ==
    LET d1 == SkipDigits(s, p)
        a1 == SkipSpaces(s, d1)
        f  == SkipSpaces(s, a1 + 1)
        n2 == SkipSpaces(s, SkipOpt(s, SkipSpaces(s, f + 1), "/"))
        d2 == SkipDigits(s, n2)
        a2 == SkipSpaces(s, d2)
        t  == SkipSpaces(s, a2 + 1)
    IN  IF /\ d1 > p /\ At(s, p - 1) \notin Digits
           /\ At(s, a1) = "A" /\ At(s, f) = "F"
           /\ d2 > n2
           /\ At(s, a2) = "A" /\ At(s, t) \in {"T", "S", "E"}
        THEN [ok |-> TRUE, frame |-> SubSeq(s, p, d1 - 1),
              trip |-> SubSeq(s, n2, d2 - 1)]
        ELSE NoMatch
NotationPairs(s) ==
    {<<NotationAt(s, p).frame, NotationAt(s, p).trip>> :
        p \in {q \in 1..Len(s) : NotationAt(s, q).ok}}

\* C2 (as claimed): for a block text that contains a frame/trip notation,
\* every bucket record emitted for it carries the frame F and the trip T of
\* a notation of that text; the trip is never a number without its
\* AT/AS/AE suffix.
C2_TripIsTheSuffixedNumber ==
    \A k \in 1..Len(specs.switchboard_buckets) :
        LET r     == specs.switchboard_buckets[k]
            pairs == NotationPairs(ToUpper(r.text))
        IN  pairs # {} => <<r.frame, r.trip>> \in pairs

\* ---- C3
RecordsOf(b, via) ==
    {k \in 1..Len(bucket_src) :
        bucket_src[k].block = b /\ bucket_src[k].via = via}
StrictMatched(b) == BucketFindAll(ToUpper(blocks[b].combined_text), 1) # << >>

\* C3: no block gets bucket records from both the strict pattern and the
\* fallback heuristic; a block whose text the strict pattern matched gets
\* exactly its strict matches and nothing from the fallback.
C3_NoDoubleCount ==
    /\ Len(bucket_src) = Len(specs.switchboard_buckets)
    /\ \A b \in 1..bi :
        /\ ~(RecordsOf(b, "strict") # {} /\ RecordsOf(b, "fallback") # {})
        /\ StrictMatched(b) =>
             /\ RecordsOf(b, "fallback") = {}
             /\ Cardinality(RecordsOf(b, "strict")) =
                  Len(BucketFindAll(ToUpper(blocks[b].combined_text), 1))

\* A processed block that the strict pattern matched and for which the
\* fallback's own tests succeed too: only the duplicate test holds it back.
C3_Witness ==
    \E b \in 1..bi :
        /\ StrictMatched(b)
        /\ FallbackCandidate(blocks[b]) # << >>
        /\ RecordsOf(b, "strict") # {}

\* ---- C4
\* The blocks assemble_text_blocks returned, and whether it has returned.
Returned == asm_pc = "done" /\ asm_ret # None
RetBlocks == asm_ret[1]
\* Lines s+1 .. s+n (s counted from 0) exist and each one after the first
\* passes the alignment test against the ones before it.
AlignedRun(s, n) ==
    /\ s + n <= Len(lines)
    /\ \A k \in 2..n :
        IsAlignedRow(sorted_texts, SubSeq(lines, s + 1, s + k - 1),
                     lines[s + k])
\* Table j is made of the lines s+1 .. s+Len(tables[j]).
TableAt(j, s) ==
    /\ s + Len(tables[j]) <= Len(lines)
    /\ \A k \in 1..Len(tables[j]) : tables[j][k].texts = lines[s + k]
Covered(s) ==
    \E j \in 1..Len(tables) : \E s0 \in 0..s :
        TableAt(j, s0) /\ s < s0 + Len(tables[j])
\* C4: when assemble_text_blocks has returned, every reported table is made
\* of at least three consecutive lines each of which passed the alignment
\* test against the rows accepted before it, and no line left outside the
\* tables starts three such lines: a table is reported iff there are three
\* consecutive aligned lines.
C4_TableIffThreeAlignedRows ==
    Returned =>
        /\ \A j \in 1..Len(tables) :
            /\ Len(tables[j]) >= 3
            /\ \E s \in 0..(Len(lines) - 1) :
                TableAt(j, s) /\ AlignedRun(s, Len(tables[j]))
        /\ \A s \in 0..(Len(lines) - 1) : ~Covered(s) => ~AlignedRun(s, 3)
\* A table of three rows has been reported.
C4_Witness ==
    /\ Returned
    /\ tables # << >>
    /\ Len(tables[1]) >= 3
    /\ AlignedRun(0, 3)

\* ---- C5
Members(b) == {sorted_texts[b.texts[k]] : k \in 1..Len(b.texts)}
\* C5: every returned TextBlock's box contains each of its fragments, and
\* each of its four sides touches one of them: it is the minimal
\* axis-aligned rectangle containing the member fragments.
C5_BoundingBoxIsMinimal ==
    Returned =>
        \A n \in 1..Len(RetBlocks) :
            LET b == RetBlocks[n] IN
            /\ \A f \in Members(b) :
                /\ b.x <= f.x
                /\ b.y <= f.y
                /\ f.x + f.width <= b.x + b.width
                /\ f.y + f.height <= b.y + b.height
            /\ \E f \in Members(b) : f.x = b.x
            /\ \E f \in Members(b) : f.y = b.y
            /\ \E f \in Members(b) : f.x + f.width = b.x + b.width
            /\ \E f \in Members(b) : f.y + f.height = b.y + b.height
\* A returned block of two fragments whose right and bottom sides are not
\* those of its last fragment, nor its top that of its first.
C5_Witness ==
    /\ Returned
    /\ \E n \in 1..Len(RetBlocks) :
        LET b  == RetBlocks[n]
            f1 == sorted_texts[b.texts[1]]
            fn == sorted_texts[Last(b.texts)]
        IN  /\ Len(b.texts) >= 2
            /\ fn.x + fn.width < b.x + b.width
            /\ fn.y + fn.height < b.y + b.height
            /\ b.y < f1.y

\* ---- C6
Gap(a, b) == b.x - (a.x + a.width)
\* Where fragment i of block b starts in b.combined_text, if every fragment
\* before it is followed by one space exactly when the gap to the next
\* exceeds 5.
TextStart(b, i) ==
    1 + SumOver([k \in 1..(i - 1) |->
                   Len(sorted_texts[b.texts[k]].text)
                   + (IF Gap(sorted_texts[b.texts[k]],
                             sorted_texts[b.texts[k + 1]]) > 5
                      THEN 1 ELSE 0)], i - 1)
\* C6: in every returned TextBlock the fragments are in ascending x order
\* and combined_text is their texts in that order, with one space between
\* two neighbours exactly when the gap between them exceeds 5 pixels, and
\* nothing else.
C6_CombinedText ==
    Returned =>
        \A n \in 1..Len(RetBlocks) :
            LET b == RetBlocks[n]
                m == Len(b.texts)
                F(k) == sorted_texts[b.texts[k]]
            IN  /\ \A k \in 1..(m - 1) : F(k).x <= F(k + 1).x
                /\ \A k \in 1..m :
                    SubSeq(b.combined_text, TextStart(b, k),
                           TextStart(b, k) + Len(F(k).text) - 1) = F(k).text
                /\ \A k \in 1..(m - 1) :
                    Gap(F(k), F(k + 1)) > 5 =>
                        b.combined_text[TextStart(b, k + 1) - 1] = " "
                /\ Len(b.combined_text) = TextStart(b, m) + Len(F(m).text) - 1
\* A returned block whose fragments arrived out of x order, with a gap of
\* exactly 5 (no space) and one of 6 (a space).
C6_Witness ==
    /\ Returned
    /\ \E n \in 1..Len(RetBlocks) :
        LET b == RetBlocks[n]
            F(k) == sorted_texts[b.texts[k]]
        IN  /\ Len(b.texts) = 3
            /\ Gap(F(1), F(2)) = 5
            /\ Gap(F(2), F(3)) = 6
            /\ b.texts[1] > b.texts[2]
            /\ b.combined_text
                 = <<"2", "2", "5", "A", "F", " ", "1", "1", "0", "A", "T">>

\* ---- C7
\* The line fragment k (of the sorted input) is in: the number of the closed
\* line, or one more than the closed lines for the line being built.
InLine(k, line) == \E n \in 1..Len(line) : line[n] = k
LineNo(k) ==
    IF \E j \in 1..Len(lines) : InLine(k, lines[j])
    THEN CHOOSE j \in 1..Len(lines) : InLine(k, lines[j])
    ELSE Len(lines) + 1
\* C7: at every point of _group_into_lines and after it, each fragment
\* reached so far is in exactly one line; a fragment is in the line of the
\* fragment just before it in the sorted input iff their vertical centres
\* differ by at most 15, and otherwise in the next line (one forward pass);
\* every closed line is in ascending x order.
C7_LinesByPrecedingFragment ==
    asm_pc \in {"group", "tables", "done"} /\ sorted_texts # << >> =>
        /\ \A k \in 1..gi :
            Cardinality({j \in 1..Len(lines) : InLine(k, lines[j])})
              + (IF InLine(k, current_line) THEN 1 ELSE 0) = 1
        /\ \A j \in 1..Len(lines) :
            /\ Cardinality({lines[j][n] : n \in 1..Len(lines[j])})
                 = Len(lines[j])
            /\ \A n \in 1..Len(lines[j]) : lines[j][n] \in 1..gi
            /\ \A n \in 1..(Len(lines[j]) - 1) :
                sorted_texts[lines[j][n]].x <= sorted_texts[lines[j][n + 1]].x
        /\ \A k \in 2..gi :
            LET d == Abs(center_y(sorted_texts[k])
                         - center_y(sorted_texts[k - 1]))
            IN  /\ d <= 15 => LineNo(k) = LineNo(k - 1)
                /\ d > 15 => LineNo(k) = LineNo(k - 1) + 1
\* The grouping has ended with a line holding two fragments whose centres
\* differ by exactly 15, put in x order against their input order, and a
\* following line whose first fragment is 16 below.
C7_Witness ==
    /\ asm_pc = "tables"
    /\ Len(lines) >= 2
    /\ \E k \in 2..(Len(sorted_texts) - 1) :
        /\ center_y(sorted_texts[k]) - center_y(sorted_texts[k - 1]) = 15
        /\ center_y(sorted_texts[k + 1]) - center_y(sorted_texts[k]) = 16
        /\ lines[LineNo(k)] = <<k, k - 1>>
        /\ LineNo(k + 1) = LineNo(k) + 1

\* ---- C8
TopologyReturned == topo_pc = "done" /\ topology # None
MainIdx == topology[1].main_equipment_idx
\* The lines having box i (counted from 0) as source_box plus those having
\* it as dest_box.
ConnectionCount(i) ==
    SumOver([k \in 1..Len(connection_lines) |->
               (IF connection_lines[k].source_box = Some(i) THEN 1 ELSE 0)
               + (IF connection_lines[k].dest_box = Some(i) THEN 1 ELSE 0)],
            Len(connection_lines))
AreaOf(i) == equipment_boxes[i + 1].area
\* C8: in a returned topology with at least one box, main_equipment_idx is
\* the index of a box such that no box has more connections and no box with
\* as many connections has a larger area.
C8_MainHasGreatestCountThenArea ==
    TopologyReturned /\ equipment_boxes # << >> =>
        /\ MainIdx # None
        /\ MainIdx[1] \in 0..(Len(equipment_boxes) - 1)
        /\ \A j \in 0..(Len(equipment_boxes) - 1) :
            /\ ConnectionCount(j) <= ConnectionCount(MainIdx[1])
            /\ ConnectionCount(j) = ConnectionCount(MainIdx[1])
                 => AreaOf(j) <= AreaOf(MainIdx[1])
\* A topology whose main equipment is not the largest box: a smaller one
\* has more connections.
C8_Witness ==
    /\ TopologyReturned
    /\ MainIdx = Some(1)
    /\ AreaOf(1) < AreaOf(0)
    /\ ConnectionCount(1) = 2
    /\ ConnectionCount(0) = 1

\* ---- C9
\* The index chosen from the list of areas and the list of connection
\* counts alone: the first position holding the greatest (count, area).
SelectMain(areas, counts) ==
    IF areas = << >> THEN None
    ELSE Some((CHOOSE i \in 1..Len(areas) :
                 /\ \A j \in 1..Len(areas) :
                      \/ counts[j] < counts[i]
                      \/ counts[j] = counts[i] /\ areas[j] <= areas[i]
                 /\ \A j \in 1..(i - 1) :
                      counts[j] # counts[i] \/ areas[j] # areas[i]) - 1)
\* Box lists that differ from the detected one only in where the boxes lie:
\* each box at the place of the next one, the places in reverse order, the
\* sheet turned upside down, every box at the origin.
MovedBoxes ==
    LET n == Len(equipment_boxes) IN
    {[k \in 1..n |->
        [equipment_boxes[k] EXCEPT !.x = equipment_boxes[(k % n) + 1].x,
                                   !.y = equipment_boxes[(k % n) + 1].y]],
     [k \in 1..n |->
        [equipment_boxes[k] EXCEPT !.x = equipment_boxes[n + 1 - k].x,
                                   !.y = equipment_boxes[n + 1 - k].y]],
     [k \in 1..n |->
        [equipment_boxes[k] EXCEPT !.y = 400 - equipment_boxes[k].y]],
     [k \in 1..n |-> [equipment_boxes[k] EXCEPT !.x = 0, !.y = 0]]}
Reverse(seq) == [k \in 1..Len(seq) |-> seq[Len(seq) + 1 - k]]
\* C9: the returned main_equipment_idx is a function of the list of box
\* areas and the per-box connection counts, and the selection gives the
\* same index for the same boxes laid anywhere else on the sheet and for
\* the same lines taken in another order.
C9_MainIsFunctionOfAreasAndCounts ==
    TopologyReturned =>
        /\ MainIdx = SelectMain(
                        [k \in 1..Len(equipment_boxes) |-> AreaOf(k - 1)],
                        [k \in 1..Len(equipment_boxes) |->
                            ConnectionCount(k - 1)])
        /\ \A moved \in MovedBoxes :
            /\ MainEquipmentIdx(moved, connection_lines) = MainIdx
            /\ MainEquipmentIdx(moved, Reverse(connection_lines)) = MainIdx
\* Two boxes of equal area and equal connection count: the one chosen is not
\* the one nearer the top of the sheet.
C9_Witness ==
    /\ TopologyReturned
    /\ MainIdx = Some(1)
    /\ Len(equipment_boxes) = 3
    /\ AreaOf(1) = AreaOf(2)
    /\ ConnectionCount(1) = ConnectionCount(2)
    /\ ConnectionCount(1) > ConnectionCount(0)
    /\ equipment_boxes[3].y < equipment_boxes[2].y

\* ---- C10
\* The squared distance from the centre of region r to line k (both counted
\* from 1).
CentreDistance(r, k) ==
    PointToLineDistance(
        text_regions[r].x + text_regions[r].width \div 2,
        text_regions[r].y + text_regions[r].height \div 2,
        connection_lines[k].x1, connection_lines[k].y1,
        connection_lines[k].x2, connection_lines[k].y2)
Within30(d) == d[1] < 900 * d[2]
NotFarther(d, e) == d[1] * e[2] <= e[1] * d[2]
RegionRect(r) ==
    <<text_regions[r].x, text_regions[r].y, text_regions[r].width,
      text_regions[r].height>>
\* C10: for every text region associate_text_with_lines has processed:
\* if some line lies less than 30 from its centre, near_line is the index of
\* a line at the least distance over all lines; otherwise near_line is
\* unset; and a line carries the region's rectangle only if it is the
\* region's near_line.  A region not yet processed has no near_line.
C10_NearLineIsNearestWithin30 ==
    topo_pc \in {"associate", "done"} =>
        \A r \in 1..Len(text_regions) :
            LET near == {k \in 1..Len(connection_lines) :
                            Within30(CentreDistance(r, k))}
                nl   == text_regions[r].near_line
            IN  IF r > ri \/ near = {}
                THEN nl = None
                ELSE /\ nl # None
                     /\ nl[1] + 1 \in near
                     /\ \A k \in 1..Len(connection_lines) :
                          NotFarther(CentreDistance(r, nl[1] + 1),
                                     CentreDistance(r, k))
                     /\ \A k \in 1..Len(connection_lines) :
                          connection_lines[k].text_region
                             = Some(RegionRect(r)) => nl = Some(k - 1)
\* Both regions processed: the first has two lines within 30 and is linked
\* to the second, nearer one; the other lies exactly 30 from its only
\* candidate and is left unlinked.
C10_Witness ==
    /\ topo_pc = "associate"
    /\ Len(text_regions) = 2 /\ ri = 2
    /\ Len(connection_lines) = 2
    /\ Within30(CentreDistance(1, 1))
    /\ Within30(CentreDistance(1, 2))
    /\ ~NotFarther(CentreDistance(1, 1), CentreDistance(1, 2))
    /\ text_regions[1].near_line = Some(1)
    /\ connection_lines[2].text_region = Some(RegionRect(1))
    /\ CentreDistance(2, 1) = <<900, 1>>
    /\ text_regions[2].near_line = None

\* ---- C11
\* Point (px, py) lies in the bounds of box i (counted from 0) expanded by
\* d on every side.
InExpanded(px, py, i, d) ==
    LET b == equipment_boxes[i + 1] IN
    /\ b.x - d <= px /\ px <= b.x + b.width + d
    /\ b.y - d <= py /\ py <= b.y + b.height + d
\* The lowest box index whose expanded bounds hold the point, if any.
FirstBoxAt(px, py, d) ==
    LET S == {i \in 0..(Len(equipment_boxes) - 1) : InExpanded(px, py, i, d)}
    IN  IF S = {} THEN None ELSE Some(CHOOSE i \in S : \A j \in S : i <= j)
\* C11: after associate_lines_with_boxes on freshly detected lines, every
\* line's source_box is the lowest index of a box whose bounds expanded by
\* the threshold contain (x1, y1), or None when there is none, and dest_box
\* likewise for (x2, y2).
C11_FirstMatchingBoxWins ==
    pre_call.op = "associate_lines_with_boxes" /\ pre_call.fresh =>
        \A k \in 1..Len(connection_lines) :
            LET l == connection_lines[k]
                d == pre_call.proximity_threshold
            IN  /\ l.source_box = FirstBoxAt(l.x1, l.y1, d)
                /\ l.dest_box = FirstBoxAt(l.x2, l.y2, d)
\* A fresh line whose start is in reach of the large box and of a later,
\* nearer one (the only one within 10): it is linked to the large box.
C11_Witness ==
    /\ pre_call.op = "associate_lines_with_boxes" /\ pre_call.fresh
    /\ pre_call.proximity_threshold = 20
    /\ Len(equipment_boxes) = 2
    /\ Len(connection_lines) = 1
    /\ connection_lines[1].source_box = Some(0)
    /\ InExpanded(connection_lines[1].x1, connection_lines[1].y1, 1, 10)
    /\ ~InExpanded(connection_lines[1].x1, connection_lines[1].y1, 0, 10)
    /\ connection_lines[1].dest_box = None

\* ---- C12
\* Rectangle c = <<x, y, w, h>> satisfies min_size < w*h < max_size and
\* 0.2 < w/h < 5.0.
Accepted(c, min_size, max_size) ==
    /\ min_size < c[3] * c[4] /\ c[3] * c[4] < max_size
    /\ 10 * c[3] > 2 * c[4] /\ c[3] < 5 * c[4]
RectOf(b) == <<b.x, b.y, b.width, b.height>>
\* C12: right after detect_equipment_boxes(min_size, max_size), the boxes
\* are exactly the contour rectangles satisfying both strict bounds, each
\* as many times as the image has it.
C12_BoxesAreExactlyTheAccepted ==
    pre_call.op = "detect_equipment_boxes" =>
        \A c \in BoxContours :
            Cardinality({k \in 1..Len(equipment_boxes) :
                            RectOf(equipment_boxes[k]) = c})
            = IF Accepted(c, pre_call.min_size, pre_call.max_size)
              THEN Cardinality({k \in 1..Len(image.contours) :
                                   image.contours[k] = c})
              ELSE 0
\* One rectangle is kept and one of area equal to min_size is left out.
C12_Witness ==
    /\ pre_call.op = "detect_equipment_boxes"
    /\ Len(image.contours) = 2
    /\ Len(equipment_boxes) = 1
    /\ \E k \in 1..2 :
        image.contours[k][3] * image.contours[k][4] = pre_call.min_size

\* ---- C13
\* C13: right after detect_connection_lines(min_length), every line kept is
\* at least min_length long and its direction is at least 5 degrees from
\* both axes (tan 5 deg <= |dy|/|dx| <= 1/tan 5 deg, with 7/80 for the
\* tangent as in the model).
C13_KeptLinesLongAndOblique ==
    pre_call.op = "detect_connection_lines" =>
        \A k \in 1..Len(connection_lines) :
            LET l  == connection_lines[k]
                dx == Abs(l.x2 - l.x1)
                dy == Abs(l.y2 - l.y1)
                m  == pre_call.min_length
            IN  /\ dx * dx + dy * dy >= m * m
                /\ 80 * dy >= 7 * dx
                /\ 80 * dx >= 7 * dy
\* A line of exactly min_length is kept.
C13_Witness ==
    /\ pre_call.op = "detect_connection_lines"
    /\ pre_call.min_length = 250
    /\ Len(connection_lines) = 1
    /\ (connection_lines[1].x2 - connection_lines[1].x1)
         * (connection_lines[1].x2 - connection_lines[1].x1)
       + (connection_lines[1].y2 - connection_lines[1].y1)
         * (connection_lines[1].y2 - connection_lines[1].y1) = 62500

IsKept(sg) ==
    \E k \in 1..Len(connection_lines) :
        /\ connection_lines[k].x1 = sg[1] /\ connection_lines[k].y1 = sg[2]
        /\ connection_lines[k].x2 = sg[3] /\ connection_lines[k].y2 = sg[4]
BucketTypes == {AT, AS, AE}
\* The letter written after the trip value of bucket record k: the letter
\* its own match captured.
OwnSuffixLetter(k) ==
    LET b          == bucket_src[k].block
        text_upper == ToUpper(blocks[b].combined_text)
        first      == CHOOSE j \in RecordsOf(b, bucket_src[k].via) :
                        \A m \in RecordsOf(b, bucket_src[k].via) : j <= m
    IN  IF bucket_src[k].via = "strict"
        THEN BucketFindAll(text_upper, 1)[k - first + 1].letter
        ELSE TripSearch(text_upper).g2
\* C15: every bucket record's trip_type is AT, AS or AE, and it is the
\* suffix written after the record's own trip value ("A" and the captured
\* letter), whatever other suffixes the block's text holds.
C15_TripTypeIsOwnSuffix ==
    \A k \in 1..Len(specs.switchboard_buckets) :
        LET r == specs.switchboard_buckets[k]
        IN  /\ r.trip_type \in BucketTypes
            /\ r.trip_type = <<"A", OwnSuffixLetter(k)>>

\* ---- C16
\* The whole text is a number and a kcmil unit (kcmil, MCM, kcm) in any
\* letter case, blanks allowed between.
KcmilForm(s) ==
    LET d == SkipDigits(s, 1)
        u == SkipSpaces(s, d)
        unit == ToUpper(SubSeq(s, u, Len(s)))
    IN  /\ d > 1
        /\ unit \in {<<"K", "C", "M", "I", "L">>, <<"M", "C", "M">>,
                     <<"K", "C", "M">>}
\* The whole text is an AWG gauge: "#", a number, and possibly "/0".
AwgForm(s) ==
    LET d == SkipDigits(s, 2)
    IN  /\ At(s, 1) = "#" /\ d > 2
        /\ \/ d = Len(s) + 1
           \/ d = Len(s) - 1 /\ At(s, d) = "/" /\ At(s, d + 1) = "0"
\* The wire-spec records of block b (a block's location is its own).
WireRecordsOf(b) ==
    {k \in 1..Len(specs.wire_specs) :
        specs.wire_specs[k].location = <<blocks[b].x, blocks[b].y>>}
OneVerbatimWireRecord(b) ==
    /\ Cardinality(WireRecordsOf(b)) = 1
    /\ \A k \in WireRecordsOf(b) :
          specs.wire_specs[k] = [text |-> blocks[b].combined_text,
                                 location |-> <<blocks[b].x, blocks[b].y>>]
\* C16 (as claimed): every block whose text is a wire size, in a kcmil form
\* or as an AWG gauge such as "#1/0", has exactly one wire-spec record,
\* with the block's text verbatim and the block's location.
C16_WireSizeYieldsOneRecord ==
    \A b \in 1..Len(blocks) :
        KcmilForm(blocks[b].combined_text) \/ AwgForm(blocks[b].combined_text)
            => OneVerbatimWireRecord(b)
\* C16 as amended: every block whose text is a wire size in a kcmil form
\* has exactly one wire-spec record, with the block's text verbatim and the
\* block's location; a block whose text is a bare AWG gauge has none.
C16_KcmilSizeYieldsOneRecord ==
    \A b \in 1..Len(blocks) :
        /\ KcmilForm(blocks[b].combined_text) => OneVerbatimWireRecord(b)
        /\ AwgForm(blocks[b].combined_text) => WireRecordsOf(b) = {}
\* Two blocks "600 mcm" have been read, and each has its record.
C16_Witness ==
    /\ Len(blocks) = 2
    /\ \A b \in 1..2 :
          blocks[b].combined_text = <<"6", "0", "0", " ", "m", "c", "m">>
    /\ Len(specs.wire_specs) = 2

\* ---- C17
Severities == {"critical", "warning", "info"}
\* C17: a call of check_wire_ampacity, check_voltage_drop or
\* check_conduit_fill, whatever its arguments (gauges and trade sizes in or
\* out of the tables, numbers including zero), raises nothing and returns
\* None or one CodeViolation of severity critical, warning or info.
C17_ChecksReturnAndNeverRaise ==
    nec_call.op \in {"check_wire_ampacity", "check_voltage_drop",
                     "check_conduit_fill"} =>
        /\ nec_exc = None
        /\ \/ nec_ret = None
           \/ Len(nec_ret) = 1 /\ nec_ret[1].severity \in Severities

\* ---- C19
\* The limit the claim names for a wire count of one or more
ClaimedLimit(n) == IF n = 1 THEN 53 ELSE IF n = 2 THEN 31 ELSE 40
\* C19: for a conduit size of the table and a wire count of one or more,
\* check_conduit_fill returns critical iff the fill (the cross-sections of
\* wire_sizes, a gauge outside the table counting as zero, over the
\* conduit's area) is above 53% / 31% / 40% for 1 / 2 / 3 or more wires,
\* warning iff it is above 80% of that limit and not above the limit, and
\* None otherwise.
C19_FillVerdict ==
    (/\ nec_call.op = "check_conduit_fill"
     /\ nec_call.conduit_size \in DOMAIN conduit_diameters
     /\ nec_call.wire_count >= 1) =>
    LET limit  == ClaimedLimit(nec_call.wire_count)
        t      == TotalWireArea(nec_call.wire_sizes)
        d      == conduit_diameters[nec_call.conduit_size]
        over   == FillAbove(t, d, limit, 1)
        near   == FillAbove(t, d, 4 * limit, 5)
    IN  /\ nec_exc = None
        /\ IsSeverity(nec_ret, "critical") <=> over
        /\ IsSeverity(nec_ret, "warning") <=> near /\ ~over
        /\ nec_ret = None <=> ~near
\* One 1/0 wire in a 3/4" conduit declared as a pair: 34.8% fill, above the
\* 31% of two wires and below the 40% of three.
C19_Witness ==
    /\ nec_call.op = "check_conduit_fill"
    /\ nec_call.conduit_size = "3/4"
    /\ nec_call.wire_count = 2
    /\ nec_call.wire_sizes = <<"1/0">>
    /\ IsSeverity(nec_ret, "critical")

\* ---- C18
\* C18: a check_* call changes nothing of the validator but hands back its
\* result: the step that makes the call leaves violations, version and the
\* lookup tables as they were; every change of violations is the caller
\* appending what the last check returned; and the summary generated next
\* lists exactly the records of violations.
C18_ChecksLeaveValidatorAlone ==
    [][/\ (nec_call.op = "none" /\ nec_call'.op \in CheckOps) =>
            /\ violations' = violations
            /\ version' = version
            /\ nec_tables' = nec_tables
       /\ violations' # violations =>
            /\ nec_call.op \in CheckOps
            /\ violations' = violations \o nec_ret
       /\ version' = version
       /\ nec_tables' = nec_tables
       /\ nec_call'.op = "generate_code_summary" =>
            /\ nec_ret'[1].violations = violations
            /\ nec_ret'[1].total_checks = Len(violations)]_vars
\* check_gfci_required has just returned a finding for "Kitchen" while
\* violations holds only the AFCI record the caller kept before.
C18_Witness ==
    /\ nec_call.op = "check_gfci_required"
    /\ nec_ret # None
    /\ Len(violations) = 1
    /\ violations[1].location = <<"b", "e", "d", "r", "o", "o", "m">>

\* ---- C20
\* C20: a returned topology has main_equipment_idx None exactly when no box
\* was detected (so a drawing with no accepted box gives empty
\* equipment_boxes and main_equipment_idx None, whatever lines and text
\* regions it has), and assemble_text_blocks called with an empty list
\* returns an empty list.
C20_NothingDetectedStillReturns ==
    /\ TopologyReturned => (MainIdx = None <=> equipment_boxes = << >>)
    /\ (Returned /\ sorted_texts = << >>) => RetBlocks = << >>
\* A topology returned for a drawing with a connection line and no box.
C20_Witness ==
    /\ TopologyReturned
    /\ equipment_boxes = << >>
    /\ connection_lines # << >>
    /\ MainIdx = None
\* assemble_text_blocks has returned for an empty list.
C20_WitnessEmptyList ==
    /\ Returned
    /\ sorted_texts = << >>
    /\ RetBlocks = << >>

\* ---- C21
\* C21: during the association phase of analyze_drawing_structure, a
\* source_box, dest_box or text_region of a line that holds a value keeps
\* that value in every later step.
C21_LineFieldsAssignedOnce ==
    [][topo_pc = "associate" =>
        \A k \in 1..Len(connection_lines) :
            /\ connection_lines[k].source_box # None =>
                 connection_lines'[k].source_box
                     = connection_lines[k].source_box
            /\ connection_lines[k].dest_box # None =>
                 connection_lines'[k].dest_box = connection_lines[k].dest_box
            /\ connection_lines[k].text_region # None =>
                 connection_lines'[k].text_region
                     = connection_lines[k].text_region]_vars

\* ---- C22
\* The returned blocks that hold fragment f (an index of the sorted input)
BlocksHolding(f) == {n \in 1..Len(RetBlocks) : InLine(f, RetBlocks[n].texts)}
\* C22: when assemble_text_blocks has returned, there are as many blocks as
\* grouped lines, every input fragment is a member of exactly one block,
\* and that block is a table row exactly when the fragment's line belongs
\* to a confirmed table.
C22_OneBlockPerLine ==
    Returned =>
        /\ Len(RetBlocks) = Len(lines)
        /\ \A f \in 1..Len(sorted_texts) :
            /\ Cardinality(BlocksHolding(f)) = 1
            /\ \A n \in BlocksHolding(f) :
                 RetBlocks[n].is_table_row <=> Covered(LineNo(f) - 1)

\* ---- C23
\* A number directly followed by one of the suffixes stands somewhere in s.
HasValue(s, suffixes) ==
    \E p \in 1..Len(s) :
        /\ s[p] \in Digits
        /\ \E suf \in suffixes : LitAt(s, SkipDigits(s, p), suf)
\* C23: every block read so far whose text holds a frame value (number and
\* AF) and a trip value (number and AT, AS or AE) has at least one bucket
\* record carrying its own location, also when an earlier block has the
\* same text.
C23_EveryBucketBlockHasARecord ==
    \A b \in 1..Len(blocks) :
        (/\ HasValue(blocks[b].combined_text, {AF})
         /\ HasValue(blocks[b].combined_text, {AT, AS, AE})) =>
            \E k \in 1..Len(specs.switchboard_buckets) :
                specs.switchboard_buckets[k].location
                    = <<blocks[b].x, blocks[b].y>>

\* ---- C24
ValidIndex(opt, list) == opt = None \/ (opt[1] >= 0 /\ opt[1] < Len(list))
\* C24: after any sequence of calls of the public methods, every source_box
\* and dest_box that is set is an index of the current equipment_boxes, and
\* every near_line that is set is an index of the current connection_lines.
C24_IndicesStayValid ==
    /\ \A k \in 1..Len(connection_lines) :
        /\ ValidIndex(connection_lines[k].source_box, equipment_boxes)
        /\ ValidIndex(connection_lines[k].dest_box, equipment_boxes)
    /\ \A r \in 1..Len(text_regions) :
        ValidIndex(text_regions[r].near_line, connection_lines)

\* ---- C25
IsNumber(v) == v # None /\ ~IsRaise(v)
\* C25: a calibrate call never fails and leaves calibrated = TRUE with
\* pixels_per_foot the number computed from its own arguments, whatever the
\* unit; measure_distance never fails, leaves the scale alone, and returns
\* None before the first calibration and a number after any calibration.
C25_ScaleIsCurrent ==
    [][/\ scale_call'.op = "calibrate" =>
            /\ ~IsRaise(scale_call'.ret)
            /\ calibrated'
            /\ pixels_per_foot' # None
            /\ pixels_per_foot'[1][1] =
                  PixelDistance(scale_call'.line[1], scale_call'.line[2],
                                scale_call'.line[3], scale_call'.line[4])
                  * (IF scale_call'.unit = "meters" THEN 100000 ELSE 1)
       /\ scale_call'.op = "measure_distance" =>
            /\ pixels_per_foot' = pixels_per_foot
            /\ calibrated' = calibrated
            /\ IF calibrated THEN IsNumber(scale_call'.ret)
               ELSE scale_call'.ret = None]_vars

\* ---- C26
OneRow(line) ==
    \A a \in 1..Len(line), b \in 1..Len(line) :
        Abs(center_y(sorted_texts[line[a]]) - center_y(sorted_texts[line[b]]))
            <= vertical_threshold
SameKey(i, j) ==
    ConnectionCount(i) = ConnectionCount(j) /\ AreaOf(i) = AreaOf(j)
NoLineAtAnyBox ==
    \A k \in 1..Len(connection_lines) :
        /\ connection_lines[k].source_box = None
        /\ connection_lines[k].dest_box = None
\* C27: in a returned topology with boxes, no box of a lower index than
\* main_equipment_idx has the same (connection count, area) pair as the main
\* box: among the boxes that tie on the greatest pair the lowest index is
\* chosen; and when no line is associated with any box the index is 0.
C27_LowestIndexAmongTies ==
    TopologyReturned /\ equipment_boxes # << >> =>
        /\ MainIdx # None
        /\ \A j \in 0..(Len(equipment_boxes) - 1) :
            SameKey(j, MainIdx[1]) => MainIdx[1] <= j
        /\ NoLineAtAnyBox => MainIdx = Some(0)
\* A topology in which a connected box and a later box tie on the greatest
\* pair.
C27_Witness ==
    /\ TopologyReturned
    /\ MainIdx # None
    /\ ConnectionCount(MainIdx[1]) > 0
    /\ \E j \in 0..(Len(equipment_boxes) - 1) :
        j > MainIdx[1] /\ SameKey(j, MainIdx[1])
\* A topology with several boxes and lines, none of the lines at a box.
C27_WitnessNoLineAtABox ==
    /\ TopologyReturned
    /\ Len(equipment_boxes) >= 2
    /\ connection_lines # << >>
    /\ NoLineAtAnyBox
    /\ MainIdx = Some(0)

\* ---- C28
\* C28: no table has more than 20 rows; the rows of a table are consecutive
\* lines, top to bottom, numbered 0, 1, 2, ...; and when the scan is over, a
\* table cut at 20 rows whose run goes on is followed by the candidate that
\* starts at the 21st line: if that line starts three aligned lines, they
\* are a table of their own, numbered from 0 again.
C28_TablesCutAtTwentyRows ==
    asm_pc \in {"tables", "done"} =>
        \A j \in 1..Len(tables) :
            /\ Len(tables[j]) <= 20
            /\ \E s \in 0..(Len(lines) - 1) : TableAt(j, s)
            /\ \A k \in 1..Len(tables[j]) :
                /\ tables[j][k].row_number = Some(k - 1)
                /\ k > 1 => tables[j][k - 1].y < tables[j][k].y
            /\ \A s \in 0..(Len(lines) - 1) :
                (/\ Returned
                 /\ TableAt(j, s)
                 /\ Len(tables[j]) = 20
                 /\ AlignedRun(s + 20, 3))
                => \E j2 \in 1..Len(tables) :
                      /\ TableAt(j2, s + 20)
                      /\ tables[j2][1].row_number = Some(0)
\* A run of more than 40 aligned lines has been returned as a table of 20
\* rows, a second table of 20 rows from the 21st line on, and a third.
C28_Witness ==
    /\ Returned
    /\ AlignedRun(0, 21)
    /\ Len(tables) = 3
    /\ Len(tables[1]) = 20
    /\ TableAt(2, 20)
    /\ Len(tables[2]) = 20
    /\ tables[2][1].row_number = Some(0)
    /\ TableAt(3, 40)

\* ---- C29
AbsentGauge(g) == g \notin DOMAIN wire_ampacity
InTable(g) == g \in DOMAIN wire_ampacity
\* C29: for a gauge that is not in the ampacity table, check_wire_ampacity
\* returns an 'info' record whatever the trip rating (never 'critical',
\* 'warning' or None), check_voltage_drop returns None, and
\* check_conduit_fill counts the gauge as zero cross-section: its result is
\* the one for the wire list without the absent gauges, and None when the
\* list holds nothing else.  None of the three raises.
C29_AbsentGauge ==
    /\ (nec_call.op = "check_wire_ampacity" /\ AbsentGauge(nec_call.wire_size))
        => /\ nec_exc = None
           /\ nec_ret # None
           /\ nec_ret[1].severity = "info"
    /\ (nec_call.op = "check_voltage_drop" /\ AbsentGauge(nec_call.wire_size))
        => nec_exc = None /\ nec_ret = None
    /\ nec_call.op = "check_conduit_fill"
        => /\ nec_exc = None
           /\ nec_ret = check_conduit_fill(nec_call.conduit_size,
                                           nec_call.wire_count,
                                           SelectSeq(nec_call.wire_sizes,
                                                     InTable))
           /\ (\A k \in 1..Len(nec_call.wire_sizes) :
                  AbsentGauge(nec_call.wire_sizes[k])) => nec_ret = None
\* check_wire_ampacity has answered 'info' for a 600 kcmil wire on the
\* largest breaker.
C29_Witness ==
    /\ nec_call.op = "check_wire_ampacity"
    /\ nec_call.wire_size = "600"
    /\ nec_call.breaker_amps = MaxBreaker
    /\ nec_ret # None
    /\ nec_ret[1].severity = "info"
\* check_voltage_drop has answered None for a 250 kcmil wire at zero volts,
\* and check_conduit_fill None for a conduit of 750 kcmil wires only.
C29_WitnessVoltageDrop ==
    /\ nec_call.op = "check_voltage_drop"
    /\ nec_call.wire_size = "250"
    /\ nec_call.voltage = 0
    /\ nec_ret = None
C29_WitnessConduitFill ==
    /\ nec_call.op = "check_conduit_fill"
    /\ nec_call.conduit_size = "1/2"
    /\ nec_call.wire_sizes = <<"750", "750", "750">>
    /\ nec_ret = None

\* ---- C30
InBothTables(g) ==
    g \in DOMAIN wire_ampacity /\ g \in DOMAIN ELECTRICAL_WIRE_AMPACITY
\* C30: when both checks have answered for one circuit whose gauge is in
\* both ampacity tables, check_wire_ampacity has returned a 'critical' record
\* iff validate_electrical_circuit has reported the circuit as not valid.
C30_ChecksAgree ==
    (/\ circuit # None
     /\ InBothTables(circuit[1].wire_size)
     /\ nec_call.op = "check_wire_ampacity"
     /\ circuit_ret # None)
    => (IsSeverity(nec_ret, "critical") <=> ~circuit_ret[1].valid)

=============================================================================
